---------------------------- MODULE Spec2Model ----------------------------
(***************************************************************************)
(* Model of the timelapse viewer: the useFiles hook (directory listing     *)
(* with its bounded retry loop) and the parts of App that consume it.      *)
(*                                                                         *)
(* A React state update re-renders the component and runs the effects      *)
(* whose dependencies changed; the model takes the handler (or the         *)
(* continuation of a resolved promise) together with the effects it        *)
(* triggers as one step.  Promises in flight are explicit records, so      *)
(* that their continuations interleave in any arrival order.               *)
(***************************************************************************)
EXTENDS Integers, Sequences, FiniteSets, TLC

VARIABLES
  folder,      \* useFiles: the hook's argument at the last render
  files,       \* useFiles: the `files` state
  filesError,  \* useFiles: the `filesError` state
  loads,       \* loadFiles calls in flight (one record per unresolved call)
  nextLoad,    \* number of loadFiles calls that reached the retry loop
  trace,       \* observation of the most recent loadFiles call
  \* App
  currentDateFolder,   \* today's folder name, computed once at mount
  folders,             \* useFolders: `folders`
  foldersError,        \* useFolders: `foldersError`
  videos,              \* useVideos: `videos`
  videosError,         \* useVideos: `videosError`
  viewMode,
  selectedFolder,
  selectedVideo,
  currentImageIndex,
  currentImageSrc,
  videoCacheFolder,
  isExtractingFrames,
  videoFiles,          \* second useFiles: `files`
  videoFilesError,     \* second useFiles: `filesError` (not read by App)
  videoLoads,          \* second useFiles: loadFiles calls in flight
  dirLoads,            \* loadFolders / loadVideos calls in flight
  extracts,            \* extract_video_frames requests in flight
  nextExtract,         \* number of extraction requests issued
  reads,               \* readFile calls in flight
  nextRead,            \* number of readFile calls issued
  blobs,               \* object URLs created, each with the path it was read from
  revoked,             \* object URLs passed to URL.revokeObjectURL
  supersededFolder,    \* observation: the folder whose listing was unresolved
                       \* when the selection last moved on to another folder
  lastStep,            \* observation: the event of the last step and what
                       \* auto-selection chose in it
  limit,               \* the numbers of calls the behaviour is explored up to
  playback,            \* the video-playback revision of App: currentVideoSrc,
                       \* isTranscoding, and the runs of its loadVideo effect
  refresh,             \* the setTimeout callbacks of refreshContent that have
                       \* not run yet, and the number of timers set
  mounted,             \* the component is mounted
  bump                 \* the bump-version script: its place, its argument,
                       \* its variables and the version in the two files

hookVars == <<folder, files, filesError, loads, nextLoad>>
componentVars ==
  <<currentDateFolder, folders, foldersError, videos, videosError, viewMode,
    selectedFolder, selectedVideo, currentImageIndex, currentImageSrc,
    videoCacheFolder, isExtractingFrames, videoFiles, videoFilesError,
    videoLoads, dirLoads, extracts, nextExtract, reads, nextRead, blobs, revoked,
    supersededFolder, lastStep, limit, playback, refresh, mounted>>
appOnlyVars == <<componentVars, bump>>
vars == <<folder, files, filesError, loads, nextLoad, trace, appOnlyVars>>

NULL == "null"

-----------------------------------------------------------------------------
(* Bounds of the model *)

\* loadFiles calls that enter the retry loop in one behaviour
MaxLoads == 2

\* extract_video_frames requests issued in one behaviour
MaxExtracts == 2

\* readFile calls issued in one behaviour
MaxReads == 2

\* readFile calls issued after a long sequence was loaded and shown
MaxNavReads == 2

\* loadFiles and readFile calls issued after the folder of the day was shown
MaxBrowseLoads == 1
MaxBrowseReads == 3

\* runs of the loadVideo effect in one behaviour, the run at mount included
MaxVideoRuns == 4
\* Clicks on Refresh, and the loadFiles and extraction calls that follow them
MaxRefreshes == 1
MaxRefreshLoads == 3
MaxRefreshExtracts == 4

\* loadFolders / loadVideos calls of one index in flight at a time
MaxIndexLoads == 2

\* Entries of the recordings directory, and loadFiles calls issued at startup
MaxEntries == 3
MaxStartLoads == 1

\* Files of the long recording folder, frames of the long video
NavLength == 120
NavFrames == 12

-----------------------------------------------------------------------------
(* Strings.  Names are TLA+ strings; a character is a string of length 1. *)

CharAt(s, i) == SubSeq(s, i, i)

\* Position of character c in the string s, 0 when it does not occur
IndexIn(s, c) ==
  IF \E i \in 1..Len(s) : CharAt(s, i) = c
  THEN CHOOSE i \in 1..Len(s) : CharAt(s, i) = c
  ELSE 0

\* Runs of consecutive ASCII characters: " " is 32, "-./0..9:" starts at 45,
\* "A..Z" at 65, "_" is 95, "a..z" starts at 97
AsciiPunct == "-./0123456789:"
AsciiUpper == "ABCDEFGHIJKLMNOPQRSTUVWXYZ"
AsciiLower == "abcdefghijklmnopqrstuvwxyz"

\* UTF-16 code unit of a character (String.prototype.charCodeAt)
CharCode(c) ==
  IF c = " " THEN 32
  ELSE IF IndexIn(AsciiPunct, c) > 0 THEN 44 + IndexIn(AsciiPunct, c)
  ELSE IF IndexIn(AsciiUpper, c) > 0 THEN 64 + IndexIn(AsciiUpper, c)
  ELSE IF c = "_" THEN 95
  ELSE 96 + IndexIn(AsciiLower, c)

\* String.prototype.startsWith
startsWith(s, prefix) ==
  /\ Len(s) >= Len(prefix)
  /\ SubSeq(s, 1, Len(prefix)) = prefix

RECURSIVE StrLessFrom(_, _, _)
StrLessFrom(a, b, i) ==
  IF i > Len(a) THEN i <= Len(b)
  ELSE IF i > Len(b) THEN FALSE
  ELSE IF CharAt(a, i) # CharAt(b, i)
       THEN CharCode(CharAt(a, i)) < CharCode(CharAt(b, i))
       ELSE StrLessFrom(a, b, i + 1)

\* a < b as Array.prototype.sort compares strings without a comparator:
\* by UTF-16 code units, a proper prefix first
StrLess(a, b) == StrLessFrom(a, b, 1)

\* The number of elements of s that a stable ascending sort puts before s[i]
sortRank(s, i) ==
  Cardinality({j \in 1..Len(s) : \/ StrLess(s[j], s[i])
                                 \/ ~StrLess(s[i], s[j]) /\ j < i})

\* s with the element of rank k - 1 at position k (\o makes the function a
\* sequence whose elements are computed once)
sortPlace(s, ranks) ==
  [k \in 1..Len(s) |-> s[CHOOSE i \in 1..Len(s) : ranks[i] = k - 1]] \o <<>>

\* Array.prototype.sort() with the default comparison (stable)
sort(s) == sortPlace(s \o <<>>, [i \in 1..Len(s) |-> sortRank(s, i)] \o <<>>)

-----------------------------------------------------------------------------
(* Values *)

\* An Error object with message m is the string "Error: m" (its toString());
\* any other rejection value is the raw string.
isErrorObject(val) == startsWith(val, "Error: ")

\* ensureError: an Error is returned as it is, anything else is wrapped
ensureError(val) == IF isErrorObject(val) THEN val ELSE "Error: " \o val

\* `!folder`: null and the empty string are falsy
isFalsy(f) == f = NULL \/ f = ""

\* DirEntry of @tauri-apps/plugin-fs
File(n) == [name |-> n, isFile |-> TRUE, isDirectory |-> FALSE]
Dir(n) == [name |-> n, isFile |-> FALSE, isDirectory |-> TRUE]
Symlink(n) == [name |-> n, isFile |-> FALSE, isDirectory |-> FALSE]

-----------------------------------------------------------------------------
(* Environment: the storage layer *)

\* Folder arguments useFiles is rendered with
FolderNames == {"2025-01-15", ".cache/k1", ".cache"}

\* What readDir can reject with
Rejections == {"Error: ENOENT", "forbidden path"}

\* Directory listings readDir can resolve to.  The capture process and the
\* frame extractor write to the directories while they are listed, so any of
\* the listings of a path can come back at any attempt.
DayListing == <<File("shot_9.png"), Dir("thumbs"), File("shot_10.png"), File("Shot_2.png")>>
CacheListing == <<File("frame_0002.jpg"), Symlink("latest"), File("frame_0001.jpg")>>
NoFilesListing == <<Dir("thumbs"), Symlink("latest")>>

dirPath(f) == "Timelapse/" \o f

readDirResults(path) ==
  IF path = "Timelapse/2025-01-15" THEN {<<>>, NoFilesListing, DayListing}
  ELSE IF path = "Timelapse/.cache/k1" THEN {<<>>, NoFilesListing, CacheListing}
  ELSE {<<>>, DayListing}

-----------------------------------------------------------------------------
(* useFiles.loadFiles *)

maxRetries == 5
retryDelay == 500

\* Variant: the list is not sorted
fileListOfUnsorted(entries) ==
  LET kept == SelectSeq(entries, LAMBDA entry : entry.isFile) IN
  [i \in 1..Len(kept) |-> kept[i].name]

\* entries.filter(isFile).map(name).sort()
fileListOf(entries) ==
  LET kept == SelectSeq(entries, LAMBDA entry : entry.isFile) IN
  sort([i \in 1..Len(kept) |-> kept[i].name])

\* Variant: the prefix is tested without its trailing slash
isCachePathLoose(f) == startsWith(f, ".cache")

isCachePath(f) == startsWith(f, ".cache/")

\* "If we got files, or if this is not a cache folder, accept the result"
accepts(fileList, f) == Len(fileList) > 0 \/ ~isCachePath(f)

\* Variant: one attempt too many
hasNextAttemptOffByOne(attempt) == attempt < 5

\* `attempt < maxRetries - 1`: another attempt follows, after the delay
hasNextAttempt(attempt) == attempt < maxRetries - 1

\* Variant: an empty result after the last attempt is promoted to an error
afterLoopAlwaysThrows(lastError) ==
  [kind |-> "throw", files |-> <<>>,
   error |-> IF lastError # NULL THEN lastError ELSE "Error: No files found",
   lastError |-> lastError]

\* After the loop: throw the last error if there was one, else setFiles([])
afterLoop(lastError) ==
  IF lastError # NULL
  THEN [kind |-> "throw", files |-> <<>>, error |-> lastError, lastError |-> lastError]
  ELSE [kind |-> "commit", files |-> <<>>, error |-> NULL, lastError |-> lastError]

\* Variant: an error of an earlier attempt is thrown although this one succeeded
onResolvedStaleError(l, entries) ==
  IF l.lastError # NULL
  THEN [kind |-> "throw", files |-> <<>>, error |-> l.lastError, lastError |-> l.lastError]
  ELSE [kind |-> "commit", files |-> fileListOf(entries), error |-> NULL, lastError |-> NULL]

\* One iteration of the retry loop of call l, whose readDir resolved to entries
onResolved(l, entries) ==
  LET fileList == fileListOf(entries) IN
  IF accepts(fileList, l.folder)
  THEN [kind |-> "commit", files |-> fileList, error |-> NULL, lastError |-> l.lastError]
  ELSE IF hasNextAttempt(l.attempt)
  THEN [kind |-> "delay", files |-> <<>>, error |-> NULL, lastError |-> l.lastError]
  ELSE afterLoop(l.lastError)

\* Variant: the first error is kept instead of the last
onRejectedKeepsFirst(l, val) ==
  LET lastError == IF l.lastError # NULL THEN l.lastError ELSE ensureError(val) IN
  IF l.attempt < 4
  THEN [kind |-> "delay", files |-> <<>>, error |-> NULL, lastError |-> lastError]
  ELSE [kind |-> "throw", files |-> <<>>, error |-> lastError, lastError |-> lastError]

\* One iteration of the retry loop of call l, whose readDir rejected with val
onRejected(l, val) ==
  LET lastError == ensureError(val) IN
  IF hasNextAttempt(l.attempt)
  THEN [kind |-> "delay", files |-> <<>>, error |-> NULL, lastError |-> lastError]
  ELSE afterLoop(lastError)

\* A loadFiles call suspended at its first readDir
newLoad(id, f) ==
  [id |-> id, folder |-> f, attempt |-> 0, pc |-> "readDir", lastError |-> NULL]

\* The state of one useFiles instance; touched: setFiles was called, so
\* `files` is a new array for the next render
hookState(fs, err, ls, n) ==
  [files |-> fs, filesError |-> err, loads |-> ls, nextLoad |-> n, touched |-> FALSE]

\* The synchronous part of loadFiles for argument f, up to the first await
loadFiles(h, f) ==
  IF isFalsy(f)
  THEN [h EXCEPT !.filesError = NULL, !.files = <<>>, !.touched = TRUE]
  ELSE [h EXCEPT !.filesError = NULL,
                 !.nextLoad = @ + 1,
                 !.loads = @ \cup {newLoad(h.nextLoad + 1, f)}]

\* Variant: a call that fails clears the files
continueLoadClearsOnThrow(h, l, o) ==
  [h EXCEPT !.files = IF o.kind = "commit" THEN o.files
                      ELSE IF o.kind = "throw" THEN <<>> ELSE @,
            !.touched = (o.kind # "delay"),
            !.filesError = IF o.kind = "throw" THEN ensureError(o.error) ELSE @,
            !.loads = IF o.kind = "delay"
                      THEN (@ \ {l}) \cup {[l EXCEPT !.pc = "delay", !.lastError = o.lastError]}
                      ELSE @ \ {l}]

\* The continuation of call l after its readDir settled with outcome o
continueLoad(h, l, o) ==
  [h EXCEPT !.files = IF o.kind = "commit" THEN o.files ELSE @,
            !.touched = (o.kind = "commit"),
            !.filesError = IF o.kind = "throw" THEN ensureError(o.error) ELSE @,
            !.loads = IF o.kind = "delay"
                      THEN (@ \ {l}) \cup {[l EXCEPT !.pc = "delay", !.lastError = o.lastError]}
                      ELSE @ \ {l}]

\* Variant: the loop skips an attempt
nextAttemptSkipsOne(h, l) ==
  [h EXCEPT !.loads = (@ \ {l}) \cup {[l EXCEPT !.pc = "readDir", !.attempt = l.attempt + 2]}]

\* The delay of call l elapsed: the loop increments attempt and calls readDir
nextAttempt(h, l) ==
  [h EXCEPT !.loads = (@ \ {l}) \cup {[l EXCEPT !.pc = "readDir", !.attempt = l.attempt + 1]}]

-----------------------------------------------------------------------------
(* Observation of the most recent loadFiles call: what each attempt          *)
(* returned, how many readDir calls and how much delay it took, and how it   *)
(* ended.  The calls before it that are still in flight run on unobserved.   *)
(* id 0: a render with a falsy argument, which issues no call.  overlapped:  *)
(* a call before it was in flight when it started.                           *)

noTrace ==
  [folder |-> NULL, hist |-> <<>>, entries |-> <<>>, rejection |-> NULL,
   calls |-> 0, waited |-> 0, outcome |-> "commit", id |-> 0,
   overlapped |-> FALSE]

traceOfStart(f) ==
  IF isFalsy(f)
  THEN [noTrace EXCEPT !.folder = f]
  ELSE [noTrace EXCEPT !.folder = f, !.calls = 1, !.outcome = "pending",
                       !.id = nextLoad + 1, !.overlapped = (loads # {})]

traceOfSettle(l, kind, entries, rejection, o) ==
  IF l.id # trace.id THEN trace
  ELSE [trace EXCEPT !.hist = Append(@, kind), !.entries = entries,
                     !.rejection = rejection,
                     !.outcome = IF o.kind = "delay" THEN "pending" ELSE o.kind]

traceOfNextAttempt(l) ==
  IF l.id # trace.id THEN trace
  ELSE [trace EXCEPT !.calls = @ + 1, !.waited = @ + retryDelay]

kindOf(entries) == IF fileListOf(entries) = <<>> THEN "empty" ELSE "files"

-----------------------------------------------------------------------------
(* useFiles used with one listing at a time: the argument changes only when *)
(* no loadFiles call is in flight.                                          *)

\* The calls a behaviour may issue when it starts with the given numbers of
\* loadFiles, extract_video_frames and readFile calls already issued
limitFrom(nLoads, nExtracts, nReads, moreLoads, moreReads) ==
  [loads |-> nLoads + moreLoads, extracts |-> nExtracts + MaxExtracts,
   reads |-> nReads + moreReads]

\* The video-playback revision of App is not running
noPlayback ==
  [currentVideoSrc |-> NULL, isTranscoding |-> FALSE,
   transcodes |-> {}, videoRuns |-> 0, videoRunBlob |-> NULL]

\* refreshContent has not been called
noRefresh == [timers |-> {}, nextTimer |-> 0]

\* What is observed of a step in which no key was pressed and nothing was
\* auto-selected
noStep ==
  [event |-> "none", e |-> NULL, index |-> 0, length |-> 0,
   autoFolder |-> NULL, autoVideo |-> NULL]

\* The bump-version script is not run
noBump ==
  [pc |-> "idle", argv |-> NULL, versionType |-> NULL, package |-> NULL,
   tauri |-> NULL, oldVersion |-> NULL, newVersion |-> NULL]

\* The App state does not take part: it stays as useState initialises it
AppUnused ==
  /\ currentDateFolder = "2025-01-15"
  /\ folders = <<>> /\ foldersError = NULL
  /\ videos = <<>> /\ videosError = NULL
  /\ viewMode = "images"
  /\ selectedFolder = NULL /\ selectedVideo = NULL
  /\ currentImageIndex = 0 /\ currentImageSrc = NULL
  /\ videoCacheFolder = NULL /\ isExtractingFrames = FALSE
  /\ videoFiles = <<>> /\ videoFilesError = NULL
  /\ videoLoads = {} /\ dirLoads = {}
  /\ extracts = {} /\ nextExtract = 0
  /\ reads = {} /\ nextRead = 0
  /\ blobs = {} /\ revoked = {}
  /\ supersededFolder = NULL
  /\ lastStep = noStep
  /\ playback = noPlayback
  /\ refresh = noRefresh
  /\ mounted = TRUE
  /\ limit = limitFrom(0, 0, 0, MaxLoads, MaxReads)

Init ==
  /\ folder = NULL
  /\ files = <<>>
  /\ filesError = NULL
  /\ loads = {}
  /\ nextLoad = 0
  /\ trace = noTrace
  /\ AppUnused
  /\ bump = noBump

theHook == hookState(files, filesError, loads, nextLoad)

setHook(h) ==
  /\ files' = h.files
  /\ filesError' = h.filesError
  /\ loads' = h.loads
  /\ nextLoad' = h.nextLoad

\* The component re-renders with another folder argument; the effect runs
\* loadFiles, also while earlier calls await readDir or their retry delay
Rerender ==
  \E f \in FolderNames \cup {NULL} :
    /\ f # folder
    /\ isFalsy(f) \/ nextLoad < MaxLoads
    /\ folder' = f
    /\ setHook(loadFiles(theHook, f))
    /\ trace' = traceOfStart(f)
    /\ UNCHANGED appOnlyVars

ReadDirResolves ==
  \E l \in loads : \E entries \in readDirResults(dirPath(l.folder)) :
    /\ l.pc = "readDir"
    /\ setHook(continueLoad(theHook, l, onResolved(l, entries)))
    /\ trace' = traceOfSettle(l, kindOf(entries), entries, NULL, onResolved(l, entries))
    /\ UNCHANGED <<folder, appOnlyVars>>

ReadDirRejects ==
  \E l \in loads : \E val \in Rejections :
    /\ l.pc = "readDir"
    /\ setHook(continueLoad(theHook, l, onRejected(l, val)))
    /\ trace' = traceOfSettle(l, "error", <<>>, val, onRejected(l, val))
    /\ UNCHANGED <<folder, appOnlyVars>>

DelayElapses ==
  \E l \in loads :
    /\ l.pc = "delay"
    /\ setHook(nextAttempt(theHook, l))
    /\ trace' = traceOfNextAttempt(l)
    /\ UNCHANGED <<folder, appOnlyVars>>

Next == Rerender \/ ReadDirResolves \/ ReadDirRejects \/ DelayElapses

Spec == Init /\ [][Next]_vars

\* Every readDir call and every delay eventually resolves
FairSpec ==
  /\ Spec
  /\ WF_vars(ReadDirResolves \/ ReadDirRejects)
  /\ WF_vars(DelayElapses)

-----------------------------------------------------------------------------
(* useFiles with overlapping listings and nothing observed: the argument    *)
(* changes at any time, also while earlier loadFiles calls are in flight.   *)

OverlapRerender ==
  \E f \in FolderNames \cup {NULL} :
    /\ f # folder
    /\ isFalsy(f) \/ nextLoad < MaxLoads
    /\ folder' = f
    /\ setHook(loadFiles(theHook, f))
    /\ UNCHANGED <<trace, appOnlyVars>>

OverlapReadDirResolves ==
  \E l \in loads : \E entries \in readDirResults(dirPath(l.folder)) :
    /\ l.pc = "readDir"
    /\ setHook(continueLoad(theHook, l, onResolved(l, entries)))
    /\ UNCHANGED <<folder, trace, appOnlyVars>>

OverlapReadDirRejects ==
  \E l \in loads : \E val \in Rejections :
    /\ l.pc = "readDir"
    /\ setHook(continueLoad(theHook, l, onRejected(l, val)))
    /\ UNCHANGED <<folder, trace, appOnlyVars>>

OverlapDelayElapses ==
  \E l \in loads :
    /\ l.pc = "delay"
    /\ setHook(nextAttempt(theHook, l))
    /\ UNCHANGED <<folder, trace, appOnlyVars>>

OverlapNext ==
  \/ OverlapRerender
  \/ OverlapReadDirResolves
  \/ OverlapReadDirRejects
  \/ OverlapDelayElapses

OverlapSpec == Init /\ [][OverlapNext]_vars

-----------------------------------------------------------------------------
(* App: values and environment *)

\* String.prototype.endsWith
endsWith(s, suffix) ==
  /\ Len(s) >= Len(suffix)
  /\ SubSeq(s, Len(s) - Len(suffix) + 1, Len(s)) = suffix

\* Array.prototype.reverse
reverse(s) == [i \in 1..Len(s) |-> s[Len(s) + 1 - i]] \o <<>>

\* arr[i] of a JavaScript array: undefined (here NULL) outside 0..length-1
at(arr, i) == IF i >= 0 /\ i < Len(arr) THEN arr[i + 1] ELSE NULL

max(a, b) == IF a >= b THEN a ELSE b

min(a, b) == IF a <= b THEN a ELSE b

RECURSIVE parseIntFrom(_, _, _)
parseIntFrom(str, i, acc) ==
  IF i > Len(str) \/ IndexIn("0123456789", CharAt(str, i)) = 0 THEN acc
  ELSE parseIntFrom(str, i + 1, 10 * acc + IndexIn("0123456789", CharAt(str, i)) - 1)

\* parseInt(str, 10) of a string that starts with a decimal digit
parseInt(str) == parseIntFrom(str, 1, 0)

\* The days the App can be started on
Todays == {"2025-01-15", "2025-01-16"}

\* readDir("Timelapse"): the recordings directory
TopListing ==
  <<Dir("2025-01-14"), File("2025-01-16.mov"), Dir(".cache"), Dir("2025-01-15"),
    File("notes.txt"), File("2025-01-15.mov"), Dir("clips.mov")>>

topListings == {TopListing}

AlbumListing == <<File("shot_1.png"), Dir("thumbs")>>
FramesListing == <<File("frame_0001.jpg")>>

\* A day of recording and a long video: the entries come back latest first
Digit(d) == CharAt("0123456789", d + 1)
pad3(i) == Digit(i \div 100) \o Digit((i \div 10) % 10) \o Digit(i % 10)
LongListing == [i \in 1..NavLength |-> File("shot_" \o pad3(NavLength - i) \o ".png")]
LongFrames == [i \in 1..NavFrames |-> File("frame_" \o pad3(NavFrames - i) \o ".jpg")]

\* readDir("Timelapse") when that day is the only recording
NavTopListing ==
  <<File("2025-01-13.mov"), Dir("2025-01-13"), File("2025-01-12.mov"), Dir(".cache")>>

\* A folder that is still being recorded: it is listed with its first file
\* only, or with as many files as DayListing has; and readDir("Timelapse")
\* when it is the only other recording
TripStartListing == <<File("trip_1.png")>>
TripListing == <<File("trip_2.png"), File("trip_1.png"), File("trip_3.png")>>
BrowseTopListing ==
  <<Dir("2025-01-15"), Dir(".cache"), Dir("2025-01-11"), File("2025-01-15.mov")>>

\* What readDir can resolve to for the directories of the App
appReadDirResults(path) ==
  IF path = "Timelapse/2025-01-11" THEN {TripStartListing, TripListing}
  ELSE IF path = "Timelapse/2025-01-13" THEN {<<>>, LongListing}
  ELSE IF path = "Timelapse/.cache/k13" THEN {LongFrames}
  ELSE IF path = "Timelapse/2025-01-14" THEN {<<>>, AlbumListing}
  ELSE IF path = "Timelapse/2025-01-15" THEN {<<>>, DayListing}
  ELSE IF path = "Timelapse/.cache/k15" THEN {<<>>, CacheListing}
  ELSE IF path = "Timelapse/.cache/k16" THEN {<<>>, FramesListing}
  ELSE {<<>>}

\* The directories of the App that hold files
appDirs ==
  {"Timelapse/2025-01-11", "Timelapse/2025-01-13", "Timelapse/2025-01-14", "Timelapse/2025-01-15",
   "Timelapse/.cache/k13", "Timelapse/.cache/k15", "Timelapse/.cache/k16"}

\* The paths readFile can resolve for: the files some listing names
storedFiles ==
  UNION {UNION {{d \o "/" \o entries[i].name : i \in {j \in 1..Len(entries) : entries[j].isFile}}
                : entries \in appReadDirResults(d)}
         : d \in appDirs}

\* What readDir and invoke reject with in the App
appRejections == {"Error: ENOENT"}

\* The cache folder extract_video_frames returns for a video
cacheFolderOf(video) ==
  IF video = "2025-01-13.mov" THEN "k13"
  ELSE IF video = "2025-01-15.mov" THEN "k15"
  ELSE "k16"

\* Variant: the folder names are sorted
folderListOfSorted(entries) ==
  LET dirs == SelectSeq(entries, LAMBDA entry : entry.isDirectory)
      shown == SelectSeq(dirs, LAMBDA entry : ~startsWith(entry.name, "."))
  IN sort([i \in 1..Len(shown) |-> shown[i].name])

\* useFolders.loadFolders: directories, hidden ones excluded, in listing order
folderListOf(entries) ==
  LET dirs == SelectSeq(entries, LAMBDA entry : entry.isDirectory)
      shown == SelectSeq(dirs, LAMBDA entry : ~startsWith(entry.name, "."))
  IN [i \in 1..Len(shown) |-> shown[i].name]

\* Variant: every entry named *.mov counts, directories too
videoListOfAnyEntry(entries) ==
  LET movs == SelectSeq(entries, LAMBDA entry : endsWith(entry.name, ".mov"))
  IN sort([i \in 1..Len(movs) |-> movs[i].name])

\* Variant: the sorted names are reversed, most recent first
videoListOfReversed(entries) ==
  LET movs == SelectSeq(entries, LAMBDA entry : entry.isFile /\ endsWith(entry.name, ".mov"))
  IN reverse(sort([i \in 1..Len(movs) |-> movs[i].name]))

\* useVideos.loadVideos: .mov files, sorted ascending
videoListOf(entries) ==
  LET movs == SelectSeq(entries, LAMBDA entry : entry.isFile /\ endsWith(entry.name, ".mov"))
  IN sort([i \in 1..Len(movs) |-> movs[i].name])

-----------------------------------------------------------------------------
(* App: one render and the effects it runs.  s is the state the render saw   *)
(* (what the closures of its effects read), acc collects the state updates   *)
(* and the asynchronous calls the effects make.  touched names the arrays    *)
(* that were set since the last render: a set array is a new object, so a    *)
(* dependency on it has changed even when its content is the same.           *)

cur ==
  [folders |-> folders, foldersError |-> foldersError,
   videos |-> videos, videosError |-> videosError,
   viewMode |-> viewMode, selectedFolder |-> selectedFolder,
   selectedVideo |-> selectedVideo,
   files |-> files, filesError |-> filesError,
   currentImageIndex |-> currentImageIndex, currentImageSrc |-> currentImageSrc,
   videoCacheFolder |-> videoCacheFolder, isExtractingFrames |-> isExtractingFrames,
   videoFiles |-> videoFiles, videoFilesError |-> videoFilesError,
   loads |-> loads, videoLoads |-> videoLoads, nextLoad |-> nextLoad,
   dirLoads |-> dirLoads,
   extracts |-> extracts, nextExtract |-> nextExtract,
   reads |-> reads, nextRead |-> nextRead,
   blobs |-> blobs, revoked |-> revoked,
   currentDateFolder |-> currentDateFolder,
   touched |-> {}] @@ playback @@ refresh

\* The two useFiles instances of App, as hook states
filesHook(s) == hookState(s.files, s.filesError, s.loads, s.nextLoad)
videoFilesHook(s) == hookState(s.videoFiles, s.videoFilesError, s.videoLoads, s.nextLoad)

withFilesHook(s, h) ==
  [s EXCEPT !.files = h.files, !.filesError = h.filesError,
            !.loads = h.loads, !.nextLoad = h.nextLoad,
            !.touched = IF h.touched THEN @ \cup {"files"} ELSE @]

withVideoFilesHook(s, h) ==
  [s EXCEPT !.videoFiles = h.files, !.videoFilesError = h.filesError,
            !.videoLoads = h.loads, !.nextLoad = h.nextLoad,
            !.touched = IF h.touched THEN @ \cup {"videoFiles"} ELSE @]

\* The argument of the second useFiles
videoFolderArg(s) ==
  IF ~isFalsy(s.videoCacheFolder) THEN ".cache/" \o s.videoCacheFolder ELSE NULL

\* The loadFolders / loadVideos calls in flight d of one index
dirLoadsOf(d, index) == {l \in d : l.index = index}

\* d with one more loadFolders / loadVideos call suspended at its readDir.
\* id tells the calls in flight apart; alone: no other call of the index
\* was in flight at any time since the call was issued
withDirLoad(d, index) ==
  LET ids == {l.id : l \in dirLoadsOf(d, index)}
      id == CHOOSE k \in 1..(Cardinality(ids) + 1) : k \notin ids
  IN {IF l.index = index THEN [l EXCEPT !.alone = FALSE] ELSE l : l \in d}
       \cup {[index |-> index, id |-> id, alone |-> (ids = {})]}

\* Variant: a load leaves the last error of the index in place
loadFoldersEffectKeepsError(s, acc) ==
  [acc EXCEPT !.dirLoads = withDirLoad(@, "folders")]

\* useFolders / useVideos effect: loadFolders() / loadVideos() up to the await
loadFoldersEffect(s, acc) ==
  [acc EXCEPT !.foldersError = NULL, !.dirLoads = withDirLoad(@, "folders")]

loadVideosEffect(s, acc) ==
  [acc EXCEPT !.videosError = NULL, !.dirLoads = withDirLoad(@, "videos")]

\* useFiles effects
filesEffect(s, acc) == withFilesHook(acc, loadFiles(filesHook(acc), s.selectedFolder))

videoFilesEffect(s, acc) ==
  withVideoFilesHook(acc, loadFiles(videoFilesHook(acc), videoFolderArg(s)))

\* Variant: a folder is auto-selected in either mode
autoSelectFolderAnyMode(s, acc) ==
  IF Len(s.folders) > 0 /\ isFalsy(s.selectedFolder)
  THEN IF \E i \in 1..Len(s.folders) : s.folders[i] = s.currentDateFolder
       THEN [acc EXCEPT !.selectedFolder = s.currentDateFolder]
       ELSE [acc EXCEPT !.selectedFolder = reverse(sort(s.folders))[1]]
  ELSE acc

\* Variant: only the folder of the current date is selected
autoSelectFolderTodayOnly(s, acc) ==
  IF s.viewMode = "images" /\ Len(s.folders) > 0 /\ isFalsy(s.selectedFolder)
  THEN IF \E i \in 1..Len(s.folders) : s.folders[i] = s.currentDateFolder
       THEN [acc EXCEPT !.selectedFolder = s.currentDateFolder]
       ELSE acc
  ELSE acc

\* Variant: without today's folder, the folder listed last is selected
autoSelectFolderListedLast(s, acc) ==
  IF s.viewMode = "images" /\ Len(s.folders) > 0 /\ isFalsy(s.selectedFolder)
  THEN IF \E i \in 1..Len(s.folders) : s.folders[i] = s.currentDateFolder
       THEN [acc EXCEPT !.selectedFolder = s.currentDateFolder]
       ELSE [acc EXCEPT !.selectedFolder = s.folders[Len(s.folders)]]
  ELSE acc

\* "Auto-select today's folder if it exists (for images mode)"
autoSelectFolder(s, acc) ==
  IF s.viewMode = "images" /\ Len(s.folders) > 0 /\ isFalsy(s.selectedFolder)
  THEN IF \E i \in 1..Len(s.folders) : s.folders[i] = s.currentDateFolder
       THEN [acc EXCEPT !.selectedFolder = s.currentDateFolder]
       ELSE [acc EXCEPT !.selectedFolder = reverse(sort(s.folders))[1]]
  ELSE acc

\* "Auto-select most recent video (for videos mode)"
autoSelectVideo(s, acc) ==
  IF s.viewMode = "videos" /\ Len(s.videos) > 0 /\ isFalsy(s.selectedVideo)
  THEN [acc EXCEPT !.selectedVideo = s.videos[Len(s.videos)]]
  ELSE acc

\* "Reset image index when folder changes"
resetImageIndex(s, acc) ==
  IF s.viewMode = "images"
  THEN [acc EXCEPT !.currentImageIndex = max(Len(s.files) - 1, 0)]
  ELSE acc

\* "Reset image index when video frames are loaded"
resetFrameIndex(s, acc) ==
  IF s.viewMode = "videos" /\ Len(s.videoFiles) > 0
  THEN [acc EXCEPT !.currentImageIndex = 0]
  ELSE acc

\* Variant: a request is issued for the selected video in either mode
extractFramesAnyMode(s, acc) ==
  IF isFalsy(s.selectedVideo)
  THEN [acc EXCEPT !.videoCacheFolder = NULL, !.isExtractingFrames = FALSE]
  ELSE [acc EXCEPT !.isExtractingFrames = TRUE,
                   !.videoCacheFolder = NULL,
                   !.nextExtract = @ + 1,
                   !.extracts = @ \cup {[id |-> acc.nextExtract + 1,
                                         video |-> s.selectedVideo]}]

\* extractFrames, up to the await of invoke
extractFrames(s, acc) ==
  IF s.viewMode # "videos" \/ isFalsy(s.selectedVideo)
  THEN [acc EXCEPT !.videoCacheFolder = NULL, !.isExtractingFrames = FALSE]
  ELSE [acc EXCEPT !.isExtractingFrames = TRUE,
                   !.videoCacheFolder = NULL,
                   !.nextExtract = @ + 1,
                   !.extracts = @ \cup {[id |-> acc.nextExtract + 1,
                                         video |-> s.selectedVideo]}]

\* A readFile call issued by loadImage
startRead(acc, path) ==
  [acc EXCEPT !.nextRead = @ + 1,
              !.reads = @ \cup {[id |-> acc.nextRead + 1, path |-> path]}]

\* loadImage, up to the await of readFile
loadImage(s, acc) ==
  IF s.viewMode = "images"
  THEN IF \/ isFalsy(s.selectedFolder)
          \/ Len(s.files) = 0
          \/ isFalsy(at(s.files, s.currentImageIndex))
       THEN [acc EXCEPT !.currentImageSrc = NULL]
       ELSE startRead(acc, "Timelapse/" \o s.selectedFolder \o "/"
                             \o at(s.files, s.currentImageIndex))
  ELSE IF s.viewMode = "videos"
  THEN IF \/ isFalsy(s.videoCacheFolder)
          \/ Len(s.videoFiles) = 0
          \/ isFalsy(at(s.videoFiles, s.currentImageIndex))
       THEN [acc EXCEPT !.currentImageSrc = NULL]
       ELSE startRead(acc, "Timelapse/.cache/" \o s.videoCacheFolder \o "/"
                             \o at(s.videoFiles, s.currentImageIndex))
  ELSE acc

\* Cleanup of the blob effect of the previous render p when currentImageSrc changed
revokeBlob(p, acc) ==
  IF ~isFalsy(p.currentImageSrc) /\ startsWith(p.currentImageSrc, "blob:")
  THEN [acc EXCEPT !.revoked = @ \cup {p.currentImageSrc}]
  ELSE acc

\* Variant: shift wins over alt
handleKeydownShiftWins(s, e) ==
  LET activeFiles == IF s.viewMode = "images" THEN s.files ELSE s.videoFiles
      step == IF e.shiftKey THEN 10 ELSE IF e.altKey THEN 100 ELSE 1
  IN IF s.viewMode = "images" /\ (isFalsy(s.selectedFolder) \/ Len(s.files) = 0) THEN s
     ELSE IF s.viewMode = "videos" /\ Len(s.videoFiles) = 0 THEN s
     ELSE IF e.key = "ArrowLeft"
     THEN [s EXCEPT !.currentImageIndex = max(0, s.currentImageIndex - step)]
     ELSE IF e.key = "ArrowRight"
     THEN [s EXCEPT !.currentImageIndex = min(Len(activeFiles) - 1, s.currentImageIndex + step)]
     ELSE s

\* The keydown listener of the render of s, called with the event e
handleKeydown(s, e) ==
  LET activeFiles == IF s.viewMode = "images" THEN s.files ELSE s.videoFiles
      step == IF e.altKey THEN 100 ELSE IF e.shiftKey THEN 10 ELSE 1
  IN IF s.viewMode = "images" /\ (isFalsy(s.selectedFolder) \/ Len(s.files) = 0) THEN s
     ELSE IF s.viewMode = "videos" /\ Len(s.videoFiles) = 0 THEN s
     ELSE IF e.key = "ArrowLeft"
     THEN [s EXCEPT !.currentImageIndex = max(0, s.currentImageIndex - step)]
     ELSE IF e.key = "ArrowRight"
     THEN [s EXCEPT !.currentImageIndex = min(Len(activeFiles) - 1, s.currentImageIndex + step)]
     ELSE s

\* onChange of the range input, whose value is the string `value`
handleScrubberChange(s, value) == [s EXCEPT !.currentImageIndex = parseInt(value)]

\* An effect runs when one of its dependencies changed
when(changed, s, acc, effect(_, _)) == IF changed THEN effect(s, acc) ELSE acc

\* Variant: the timer restores no selection
refreshContentForgets(s) ==
  IF s.viewMode = "images"
  THEN [loadFoldersEffect(s, s) EXCEPT
          !.selectedFolder = NULL,
          !.timers = @ \cup {[id |-> s.nextTimer + 1, kind |-> "folder", value |-> NULL]},
          !.nextTimer = @ + 1]
  ELSE [loadVideosEffect(s, s) EXCEPT
          !.selectedVideo = NULL,
          !.timers = @ \cup {[id |-> s.nextTimer + 1, kind |-> "video", value |-> NULL]},
          !.nextTimer = @ + 1]

\* Variant: both indexes are re-invoked
refreshContentBoth(s) ==
  IF s.viewMode = "images"
  THEN [loadVideosEffect(s, loadFoldersEffect(s, s)) EXCEPT
          !.selectedFolder = NULL,
          !.timers = @ \cup {[id |-> s.nextTimer + 1, kind |-> "folder",
                              value |-> s.selectedFolder]},
          !.nextTimer = @ + 1]
  ELSE [loadFoldersEffect(s, loadVideosEffect(s, s)) EXCEPT
          !.selectedVideo = NULL,
          !.timers = @ \cup {[id |-> s.nextTimer + 1, kind |-> "video",
                              value |-> s.selectedVideo]},
          !.nextTimer = @ + 1]

\* refreshContent: the index of the active mode is loaded again, the
\* selection is set to null and a timer of 10 ms is armed that sets it back
refreshContent(s) ==
  IF s.viewMode = "images"
  THEN [loadFoldersEffect(s, s) EXCEPT
          !.selectedFolder = NULL,
          !.timers = @ \cup {[id |-> s.nextTimer + 1, kind |-> "folder",
                              value |-> s.selectedFolder]},
          !.nextTimer = @ + 1]
  ELSE [loadVideosEffect(s, s) EXCEPT
          !.selectedVideo = NULL,
          !.timers = @ \cup {[id |-> s.nextTimer + 1, kind |-> "video",
                              value |-> s.selectedVideo]},
          !.nextTimer = @ + 1]

\* The callback of the timer t of refreshContent
timerFired(c, t) ==
  IF t.kind = "folder"
  THEN [c EXCEPT !.selectedFolder = t.value, !.timers = @ \ {t}]
  ELSE [c EXCEPT !.selectedVideo = t.value, !.timers = @ \ {t}]

mountEffects(s, acc) == loadVideosEffect(s, loadFoldersEffect(s, acc))

\* The effects of the render of s that follows the render of p (all of them at
\* mount), in the order the component declares them
runEffects(p, s, mount) ==
  LET ch(f) == mount \/ s[f] # p[f]
      set(a) == a \in s.touched
      a0 == [s EXCEPT !.touched = {}]
      a1 == when(ch("currentImageSrc") /\ ~mount, p, a0, revokeBlob)
      a2 == when(mount, s, a1, mountEffects)
      a3 == when(ch("selectedFolder"), s, a2, filesEffect)
      a4 == when(mount \/ videoFolderArg(s) # videoFolderArg(p), s, a3, videoFilesEffect)
      a5 == when(set("folders") \/ ch("selectedFolder") \/ ch("viewMode"),
                 s, a4, autoSelectFolder)
      a6 == when(set("videos") \/ ch("selectedVideo") \/ ch("viewMode"),
                 s, a5, autoSelectVideo)
      a7 == when(ch("selectedFolder") \/ Len(s.files) # Len(p.files) \/ ch("viewMode"),
                 s, a6, resetImageIndex)
      a8 == when(mount \/ Len(s.videoFiles) # Len(p.videoFiles) \/ ch("viewMode"),
                 s, a7, resetFrameIndex)
      a9 == when(ch("selectedVideo") \/ ch("viewMode"), s, a8, extractFrames)
  IN when(\/ ch("selectedFolder") \/ set("files") \/ ch("videoCacheFolder")
          \/ set("videoFiles") \/ ch("currentImageIndex") \/ ch("viewMode"),
          s, a9, loadImage)

\* Renders and effects until no state update is pending
RECURSIVE render(_, _, _)
render(p, s, mount) ==
  LET acc == runEffects(p, s, mount)
      seen == [s EXCEPT !.touched = {}]
  IN IF acc = seen THEN acc ELSE render(seen, acc, FALSE)

-----------------------------------------------------------------------------
(* App, the video-playback revision: a selected video is transcoded and      *)
(* played as a whole, and the arrow keys move between videos.  Its hooks     *)
(* are the ones above.  The state of the playback is part of the state of    *)
(* both revisions; in the frame revision it stays as it starts.              *)

refreshOf(r) == [timers |-> r.timers, nextTimer |-> r.nextTimer]

playbackOf(r) ==
  [currentVideoSrc |-> r.currentVideoSrc, isTranscoding |-> r.isTranscoding,
   transcodes |-> r.transcodes, videoRuns |-> r.videoRuns,
   videoRunBlob |-> r.videoRunBlob]

\* "Auto-select most recent video (for videos mode)": "Already sorted with
\* most recent first"
playbackAutoSelectVideo(s, acc) ==
  IF s.viewMode = "videos" /\ Len(s.videos) > 0 /\ isFalsy(s.selectedVideo)
  THEN [acc EXCEPT !.selectedVideo = s.videos[1]]
  ELSE acc

\* A run of the loadVideo effect, up to the await of invoke.  videoRunBlob is
\* the blobUrl variable of the run
loadVideo(s, acc) ==
  IF s.viewMode # "videos" \/ isFalsy(s.selectedVideo)
  THEN [acc EXCEPT !.currentVideoSrc = NULL,
                   !.isTranscoding = FALSE,
                   !.videoRuns = @ + 1,
                   !.videoRunBlob = NULL]
  ELSE [acc EXCEPT !.isTranscoding = TRUE,
                   !.videoRuns = @ + 1,
                   !.videoRunBlob = NULL,
                   !.transcodes = @ \cup {[id |-> acc.videoRuns + 1,
                                           video |-> s.selectedVideo]}]

\* Cleanup of the run of the loadVideo effect that the render of p made
revokeVideoBlob(p, acc) ==
  IF ~isFalsy(acc.videoRunBlob)
  THEN [acc EXCEPT !.revoked = @ \cup {acc.videoRunBlob}]
  ELSE acc

\* loadImage, up to the await of readFile
playbackLoadImage(s, acc) ==
  IF \/ isFalsy(s.selectedFolder)
     \/ Len(s.files) = 0
     \/ isFalsy(at(s.files, s.currentImageIndex))
  THEN [acc EXCEPT !.currentImageSrc = NULL]
  ELSE startRead(acc, "Timelapse/" \o s.selectedFolder \o "/"
                        \o at(s.files, s.currentImageIndex))

\* Array.prototype.indexOf: the 0-based position of the first occurrence, or -1
indexOf(seq, x) ==
  IF \E i \in 1..Len(seq) : seq[i] = x
  THEN (CHOOSE i \in 1..Len(seq) : seq[i] = x /\ \A j \in 1..(i - 1) : seq[j] # x) - 1
  ELSE -1

\* The keydown listener of the render of s, called with the event e
playbackHandleKeydown(s, e) ==
  LET step == IF e.altKey THEN 100 ELSE IF e.shiftKey THEN 10 ELSE 1
      currentIndex == indexOf(s.videos, IF isFalsy(s.selectedVideo) THEN "" ELSE s.selectedVideo)
  IN IF s.viewMode = "images" /\ (isFalsy(s.selectedFolder) \/ Len(s.files) = 0) THEN s
     ELSE IF s.viewMode = "videos" /\ Len(s.videos) = 0 THEN s
     ELSE IF s.viewMode = "images"
     THEN IF e.key = "ArrowLeft"
          THEN [s EXCEPT !.currentImageIndex = max(0, s.currentImageIndex - step)]
          ELSE IF e.key = "ArrowRight"
          THEN [s EXCEPT !.currentImageIndex = min(Len(s.files) - 1, s.currentImageIndex + step)]
          ELSE s
     ELSE IF e.key = "ArrowLeft"
          THEN IF currentIndex > 0
               THEN [s EXCEPT !.selectedVideo = at(s.videos, currentIndex - 1)]
               ELSE s
          ELSE IF e.key = "ArrowRight"
          THEN IF currentIndex < Len(s.videos) - 1
               THEN [s EXCEPT !.selectedVideo = at(s.videos, currentIndex + 1)]
               ELSE s
          ELSE s

\* The effects of the render of s that follows the render of p (all of them at
\* mount), cleanups first, in the order the component declares them
playbackRunEffects(p, s, first) ==
  LET ch(f) == first \/ s[f] # p[f]
      set(a) == a \in s.touched
      a0 == [s EXCEPT !.touched = {}]
      a1 == when((ch("selectedVideo") \/ ch("viewMode")) /\ ~first, p, a0, revokeVideoBlob)
      a2 == when(ch("currentImageSrc") /\ ~first, p, a1, revokeBlob)
      a3 == when(first, s, a2, mountEffects)
      a4 == when(ch("selectedFolder"), s, a3, filesEffect)
      a5 == when(set("folders") \/ ch("selectedFolder") \/ ch("viewMode"),
                 s, a4, autoSelectFolder)
      a6 == when(set("videos") \/ ch("selectedVideo") \/ ch("viewMode"),
                 s, a5, playbackAutoSelectVideo)
      a7 == when(ch("selectedFolder") \/ Len(s.files) # Len(p.files) \/ ch("viewMode"),
                 s, a6, resetImageIndex)
      a8 == when(ch("selectedVideo") \/ ch("viewMode"), s, a7, loadVideo)
  IN when(ch("selectedFolder") \/ set("files") \/ ch("currentImageIndex"),
          s, a8, playbackLoadImage)

\* Renders and effects until no state update is pending
RECURSIVE playbackRender(_, _, _)
playbackRender(p, s, first) ==
  LET acc == playbackRunEffects(p, s, first)
      seen == [s EXCEPT !.touched = {}]
  IN IF acc = seen THEN acc ELSE playbackRender(seen, acc, FALSE)

-----------------------------------------------------------------------------
(* App: the component from mount on.  Every step is a user event or the      *)
(* continuation of a settled promise, followed by the renders it causes.     *)

\* The state before the first render: the useState initial values
initialApp(today) ==
  [folders |-> <<>>, foldersError |-> NULL,
   videos |-> <<>>, videosError |-> NULL,
   viewMode |-> "images", selectedFolder |-> NULL, selectedVideo |-> NULL,
   files |-> <<>>, filesError |-> NULL,
   currentImageIndex |-> 0, currentImageSrc |-> NULL,
   videoCacheFolder |-> NULL, isExtractingFrames |-> FALSE,
   videoFiles |-> <<>>, videoFilesError |-> NULL,
   loads |-> {}, videoLoads |-> {}, nextLoad |-> 0,
   dirLoads |-> {},
   extracts |-> {}, nextExtract |-> 0,
   reads |-> {}, nextRead |-> 0,
   blobs |-> {}, revoked |-> {},
   currentDateFolder |-> today,
   touched |-> {}] @@ noPlayback @@ noRefresh

withinBounds(r) ==
  /\ r.nextLoad <= limit.loads
  /\ r.nextExtract <= limit.extracts
  /\ r.nextRead <= limit.reads
  /\ r.videoRuns <= MaxVideoRuns

\* The component is in state r with nothing observed yet
appStateIs(r) ==
    /\ currentDateFolder = r.currentDateFolder
    /\ folders = r.folders /\ foldersError = r.foldersError
    /\ videos = r.videos /\ videosError = r.videosError
    /\ viewMode = r.viewMode
    /\ selectedFolder = r.selectedFolder /\ selectedVideo = r.selectedVideo
    /\ folder = r.selectedFolder
    /\ files = r.files /\ filesError = r.filesError
    /\ currentImageIndex = r.currentImageIndex
    /\ currentImageSrc = r.currentImageSrc
    /\ videoCacheFolder = r.videoCacheFolder
    /\ isExtractingFrames = r.isExtractingFrames
    /\ videoFiles = r.videoFiles /\ videoFilesError = r.videoFilesError
    /\ loads = r.loads /\ videoLoads = r.videoLoads /\ nextLoad = r.nextLoad
    /\ dirLoads = r.dirLoads
    /\ extracts = r.extracts /\ nextExtract = r.nextExtract
    /\ reads = r.reads /\ nextRead = r.nextRead
    /\ blobs = r.blobs /\ revoked = r.revoked
    /\ playback = playbackOf(r)
    /\ refresh = refreshOf(r)
    /\ mounted = TRUE
    /\ bump = noBump
    /\ supersededFolder = NULL
    /\ lastStep = noStep
    /\ trace = noTrace

\* The first render and its effects
mount(today) == render(initialApp(today), initialApp(today), TRUE)

\* The App is started on a day that has a recording folder (StartSpec starts
\* it on the other days too)
AppInit ==
  \E today \in {"2025-01-15"} : \E r \in {mount(today)} :
    /\ appStateIs(r)
    /\ limit = limitFrom(0, 0, 0, MaxLoads, MaxReads)

\* The sequence the scrubber and the arrow keys move in
activeLength(s) == IF s.viewMode = "images" THEN Len(s.files) ELSE Len(s.videoFiles)

\* The component goes to the state r its renders ended in, after the handler
\* of event ev made the state updates s
commit(ev, s, r) ==
  /\ folders' = r.folders /\ foldersError' = r.foldersError
  /\ videos' = r.videos /\ videosError' = r.videosError
  /\ viewMode' = r.viewMode
  /\ selectedFolder' = r.selectedFolder /\ selectedVideo' = r.selectedVideo
  /\ folder' = r.selectedFolder
  /\ files' = r.files /\ filesError' = r.filesError
  /\ currentImageIndex' = r.currentImageIndex
  /\ currentImageSrc' = r.currentImageSrc
  /\ videoCacheFolder' = r.videoCacheFolder
  /\ isExtractingFrames' = r.isExtractingFrames
  /\ videoFiles' = r.videoFiles /\ videoFilesError' = r.videoFilesError
  /\ loads' = r.loads /\ videoLoads' = r.videoLoads /\ nextLoad' = r.nextLoad
  /\ dirLoads' = r.dirLoads
  /\ extracts' = r.extracts /\ nextExtract' = r.nextExtract
  /\ reads' = r.reads /\ nextRead' = r.nextRead
  /\ blobs' = r.blobs /\ revoked' = r.revoked
  /\ playback' = playbackOf(r)
  /\ refresh' = refreshOf(r)
  /\ supersededFolder' =
       IF r.selectedFolder = selectedFolder THEN supersededFolder
       ELSE IF ~isFalsy(r.selectedFolder) /\ \E l \in loads : l.folder = selectedFolder
       THEN selectedFolder
       ELSE NULL
  /\ lastStep' =
       [ev EXCEPT !.autoFolder = IF r.selectedFolder # s.selectedFolder
                                 THEN r.selectedFolder ELSE NULL,
                  !.autoVideo = IF r.selectedVideo # s.selectedVideo
                                THEN r.selectedVideo ELSE NULL]
  /\ UNCHANGED <<currentDateFolder, trace, limit, mounted, bump>>

\* The state updates s of the handler of event ev take effect: render, run
\* the effects
updateOn(ev, s) ==
  /\ mounted
  /\ \E handled \in {s} :
     \E r \in {IF playback.videoRuns > 0
               THEN playbackRender(cur, handled, FALSE)
               ELSE render(cur, handled, FALSE)} :
       /\ withinBounds(r)
       /\ commit(ev, handled, r)

update(s) == updateOn(noStep, s)

\* What no step changes once the component is unmounted
settledVars ==
  <<folder, files, filesError, nextLoad, trace,
    currentDateFolder, folders, foldersError, videos, videosError, viewMode,
    selectedFolder, selectedVideo, currentImageIndex, currentImageSrc,
    videoCacheFolder, isExtractingFrames, videoFiles, videoFilesError,
    nextExtract, nextRead,
    supersededFolder, lastStep, limit, playback, refresh, bump>>

unmountedVars == <<settledVars, loads, videoLoads, dirLoads, extracts>>

\* The continuation of a promise made the state updates s.  Once the
\* component is unmounted the state setters do nothing and no effect runs:
\* only the calls in flight go on.
settleOn(ev, s) ==
  IF mounted THEN updateOn(ev, s)
  ELSE /\ loads' = s.loads /\ videoLoads' = s.videoLoads
       /\ dirLoads' = s.dirLoads /\ extracts' = s.extracts
       /\ UNCHANGED <<settledVars, reads, blobs, revoked, mounted>>

settle(s) == settleOn(noStep, s)

\* The error screens replace the header with the mode buttons and the selects
controlsShown == foldersError = NULL /\ filesError = NULL /\ videosError = NULL

elementsOf(seq) == {seq[i] : i \in 1..Len(seq)}

\* The continuations of the promises, as the state updates they make in state c
foldersListed(c, l, entries) ==
  [c EXCEPT !.folders = folderListOf(entries),
            !.touched = {"folders"},
            !.dirLoads = @ \ {l}]

videosListed(c, l, entries) ==
  [c EXCEPT !.videos = videoListOf(entries),
            !.touched = {"videos"},
            !.dirLoads = @ \ {l}]

filesListed(c, l, entries) ==
  withFilesHook(c, continueLoad(filesHook(c), l, onResolved(l, entries)))

framesListed(c, l, entries) ==
  withVideoFilesHook(c, continueLoad(videoFilesHook(c), l, onResolved(l, entries)))

framesExtracted(c, x) ==
  [c EXCEPT !.videoCacheFolder = cacheFolderOf(x.video),
            !.isExtractingFrames = FALSE,
            !.extracts = @ \ {x}]

\* URL.createObjectURL: a new URL for every call
blobUrlOf(read) == "blob:" \o ToString(read.id)

fileRead(c, rd) ==
  [c EXCEPT !.blobs = @ \cup {[url |-> blobUrlOf(rd), path |-> rd.path]},
            !.currentImageSrc = blobUrlOf(rd),
            !.reads = @ \ {rd}]

\* Variant: a failed listing is attempted again
foldersFailedRetries(c, l, val) ==
  [c EXCEPT !.foldersError = ensureError(val)]

\* The catch of loadFolders / loadVideos, the readDir of call l having
\* rejected with val
foldersFailed(c, l, val) ==
  [c EXCEPT !.foldersError = ensureError(val),
            !.dirLoads = @ \ {l}]

videosFailed(c, l, val) ==
  [c EXCEPT !.videosError = ensureError(val),
            !.dirLoads = @ \ {l}]

\* loadFolders after its readDir settled
FoldersResolve ==
  \E l \in dirLoadsOf(dirLoads, "folders") : \E entries \in topListings :
    settle(foldersListed(cur, l, entries))

FoldersReject ==
  \E l \in dirLoadsOf(dirLoads, "folders") : \E val \in appRejections :
    settle(foldersFailed(cur, l, val))

\* loadVideos after its readDir settled
VideosResolve ==
  \E l \in dirLoadsOf(dirLoads, "videos") : \E entries \in topListings :
    settle(videosListed(cur, l, entries))

VideosReject ==
  \E l \in dirLoadsOf(dirLoads, "videos") : \E val \in appRejections :
    settle(videosFailed(cur, l, val))

\* The mode toggle buttons
SetViewMode ==
  \E mode \in {"images", "videos"} :
    /\ controlsShown
    /\ mode # viewMode
    /\ update([cur EXCEPT !.viewMode = mode])

\* The folder select: an option of the list, or the empty option (null)
SelectFolder ==
  \E f \in elementsOf(folders) \cup {NULL} :
    /\ controlsShown
    /\ viewMode = "images"
    /\ f # selectedFolder
    /\ update([cur EXCEPT !.selectedFolder = f])

\* The video select
SelectVideo ==
  \E v \in elementsOf(videos) \cup {NULL} :
    /\ controlsShown
    /\ viewMode = "videos"
    /\ v # selectedVideo
    /\ update([cur EXCEPT !.selectedVideo = v])

\* The keys a keydown event can carry
KeyEvents ==
  [key : {"ArrowLeft", "ArrowRight", "Enter"}, shiftKey : BOOLEAN, altKey : BOOLEAN]

\* A key is pressed anywhere in the window
Keydown ==
  \E e \in KeyEvents : update(handleKeydown(cur, e))

\* The scrubber is dragged to another position of its range
Scrubber ==
  \E v \in 0..max(0, activeLength(cur) - 1) :
    /\ controlsShown
    /\ activeLength(cur) # 0
    /\ v # currentImageIndex
    /\ update(handleScrubberChange(cur, ToString(v)))

\* loadFiles of useFiles(selectedFolder)
FilesReadDirResolves ==
  \E l \in loads : \E entries \in appReadDirResults(dirPath(l.folder)) :
    /\ l.pc = "readDir"
    /\ settle(filesListed(cur, l, entries))

FilesReadDirRejects ==
  \E l \in loads : \E val \in appRejections :
    /\ l.pc = "readDir"
    /\ settle(withFilesHook(cur, continueLoad(filesHook(cur), l, onRejected(l, val))))

FilesDelayElapses ==
  \E l \in loads :
    /\ l.pc = "delay"
    /\ settle(withFilesHook(cur, nextAttempt(filesHook(cur), l)))

\* loadFiles of useFiles(`.cache/${videoCacheFolder}`)
FramesReadDirResolves ==
  \E l \in videoLoads : \E entries \in appReadDirResults(dirPath(l.folder)) :
    /\ l.pc = "readDir"
    /\ settle(framesListed(cur, l, entries))

FramesReadDirRejects ==
  \E l \in videoLoads : \E val \in appRejections :
    /\ l.pc = "readDir"
    /\ settle(withVideoFilesHook(cur, continueLoad(videoFilesHook(cur), l, onRejected(l, val))))

FramesDelayElapses ==
  \E l \in videoLoads :
    /\ l.pc = "delay"
    /\ settle(withVideoFilesHook(cur, nextAttempt(videoFilesHook(cur), l)))

\* extractFrames after invoke("extract_video_frames") settled
ExtractResolves ==
  \E x \in extracts :
    settle(framesExtracted(cur, x))

ExtractRejects ==
  \E x \in extracts :
    settle([cur EXCEPT !.videoCacheFolder = NULL,
                       !.isExtractingFrames = FALSE,
                       !.extracts = @ \ {x}])

\* loadImage after readFile settled
ReadFileResolves ==
  \E rd \in reads :
    /\ rd.path \in storedFiles
    /\ update(fileRead(cur, rd))

ReadFileRejects ==
  \E rd \in reads :
    update([cur EXCEPT !.currentImageSrc = NULL,
                       !.reads = @ \ {rd}])

\* <img onError>: the image shown failed to load
ImageError ==
  /\ controlsShown
  /\ currentImageSrc # NULL
  /\ playback.videoRuns > 0 => viewMode = "images"
  /\ update([cur EXCEPT !.currentImageSrc = NULL])

\* The cleanups of the effects of the last render, run when the component
\* unmounts
unmount(s) ==
  IF s.videoRuns > 0 THEN revokeBlob(s, revokeVideoBlob(s, s)) ELSE revokeBlob(s, s)

\* The window is closed
Unmount ==
  /\ mounted
  /\ mounted' = FALSE
  /\ revoked' = unmount(cur).revoked
  /\ UNCHANGED <<unmountedVars, reads, blobs>>

\* loadImage after readFile settled, the component being unmounted: the state
\* setters do nothing
ReadFileResolvesUnmounted ==
  \E rd \in reads :
    /\ ~mounted
    /\ rd.path \in storedFiles
    /\ blobs' = blobs \cup {[url |-> blobUrlOf(rd), path |-> rd.path]}
    /\ reads' = reads \ {rd}
    /\ UNCHANGED <<unmountedVars, revoked, mounted>>

ReadFileRejectsUnmounted ==
  \E rd \in reads :
    /\ ~mounted
    /\ reads' = reads \ {rd}
    /\ UNCHANGED <<unmountedVars, blobs, revoked, mounted>>

AppNext ==
  \/ FoldersResolve \/ FoldersReject
  \/ VideosResolve \/ VideosReject
  \/ SetViewMode \/ SelectFolder \/ SelectVideo
  \/ Keydown \/ Scrubber
  \/ FilesReadDirResolves \/ FilesReadDirRejects \/ FilesDelayElapses
  \/ FramesReadDirResolves \/ FramesReadDirRejects \/ FramesDelayElapses
  \/ ExtractResolves \/ ExtractRejects
  \/ ReadFileResolves \/ ReadFileRejects
  \/ ImageError
  \/ Unmount \/ ReadFileResolvesUnmounted \/ ReadFileRejectsUnmounted

AppSpec == AppInit /\ [][AppNext]_vars

-----------------------------------------------------------------------------
(* App with a long sequence loaded: the user moves through the files of a    *)
(* long recording folder, or through the frames of a long video.             *)

\* State c after a promise settled and the renders that follow
thenFoldersListed(c, entries) ==
  render(c, foldersListed(c, CHOOSE l \in c.dirLoads : l.index = "folders", entries), FALSE)
thenVideosListed(c, entries) ==
  render(c, videosListed(c, CHOOSE l \in c.dirLoads : l.index = "videos", entries), FALSE)
thenFilesListed(c, entries) ==
  render(c, filesListed(c, CHOOSE l \in c.loads : TRUE, entries), FALSE)
thenFramesListed(c, entries) ==
  render(c, framesListed(c, CHOOSE l \in c.videoLoads : TRUE, entries), FALSE)
thenFramesExtracted(c) ==
  render(c, framesExtracted(c, CHOOSE x \in c.extracts : TRUE), FALSE)
thenFileRead(c, id) == render(c, fileRead(c, CHOOSE rd \in c.reads : rd.id = id), FALSE)
thenViewMode(c, mode) == render(c, [c EXCEPT !.viewMode = mode], FALSE)

\* The long folder was auto-selected and listed.  The listing made loadImage
\* read the file at the old index 0 and then the one at the new index, the
\* last; both reads resolved in that order, and the last file is shown.
LongFolderShown ==
  thenFileRead(
    thenFileRead(
      thenFilesListed(
        thenVideosListed(thenFoldersListed(mount("2025-01-16"), NavTopListing),
                         NavTopListing),
        LongListing),
      1),
    2)

\* Then the user switched to videos: the long video was auto-selected and
\* extracted, its frames were listed, and the first frame is shown
LongVideoShown ==
  thenFileRead(
    thenFramesListed(thenFramesExtracted(thenViewMode(LongFolderShown, "videos")),
                     LongFrames),
    3)

\* The long folder was auto-selected and its listing came back empty
EmptyFolderShown ==
  thenFilesListed(
    thenVideosListed(thenFoldersListed(mount("2025-01-16"), NavTopListing), NavTopListing),
    <<>>)

NavInit ==
  \E r \in {LongFolderShown, LongVideoShown, EmptyFolderShown} :
    /\ appStateIs(r)
    /\ limit = limitFrom(r.nextLoad, r.nextExtract, r.nextRead, 0, MaxNavReads)

\* A key is pressed anywhere in the window; the step is observed
NavKeydown ==
  \E e \in KeyEvents :
    updateOn([noStep EXCEPT !.event = "keydown", !.e = e,
                            !.index = currentImageIndex,
                            !.length = activeLength(cur)],
             handleKeydown(cur, e))

\* The positions the scrubber is dragged to
NavPositions == {0, 5, 10, 11, 19, 20, 100, 119}

NavScrubber ==
  \E v \in NavPositions \cap 0..max(0, activeLength(cur) - 1) :
    /\ controlsShown
    /\ activeLength(cur) # 0
    /\ v # currentImageIndex
    /\ update(handleScrubberChange(cur, ToString(v)))

NavNext ==
  \/ NavKeydown \/ NavScrubber
  \/ ReadFileResolves \/ ReadFileRejects
  \/ ImageError

NavSpec == NavInit /\ [][NavNext]_vars

-----------------------------------------------------------------------------
(* App with the folder of the day shown: the user browses the images, moves  *)
(* through them and selects other folders.                                   *)

\* Today's folder was auto-selected and listed; the reads of the file at
\* index 0 and of the last file resolved in that order
DayFolderShown ==
  thenFileRead(
    thenFileRead(
      thenFilesListed(
        thenVideosListed(thenFoldersListed(mount("2025-01-15"), BrowseTopListing),
                         BrowseTopListing),
        DayListing),
      1),
    2)

BrowseInit ==
  \E r \in {DayFolderShown} :
    /\ appStateIs(r)
    /\ limit = limitFrom(r.nextLoad, r.nextExtract, r.nextRead,
                         MaxBrowseLoads, MaxBrowseReads)

BrowseNext ==
  \/ SelectFolder \/ Keydown \/ Scrubber
  \/ FilesReadDirResolves \/ FilesReadDirRejects \/ FilesDelayElapses
  \/ ReadFileResolves \/ ReadFileRejects
  \/ ImageError
  \/ Unmount \/ ReadFileResolvesUnmounted \/ ReadFileRejectsUnmounted

BrowseSpec == BrowseInit /\ [][BrowseNext]_vars

-----------------------------------------------------------------------------
(* App at startup: the Folder Index and the Video Index list the recordings  *)
(* directory, whatever it holds, and auto-selection picks from the lists.    *)

\* The entries readDir("Timelapse") can return
StartEntries ==
  {Dir("2025-01-15"), Dir("2025-01-17"), Dir(".cache"), Dir("clips.mov"),
   File("b.mov"), File("a.mov"), File("a.mp4")}

\* The listings of up to MaxEntries of them, in every order
startListings ==
  UNION {{entries \in [1..k -> StartEntries] :
            \A i, j \in 1..k : i # j => entries[i] # entries[j]}
         : k \in 0..MaxEntries}

StartInit ==
  \E today \in Todays : \E r \in {mount(today)} :
    /\ appStateIs(r)
    /\ limit = limitFrom(0, 0, 0, MaxStartLoads, 0)

\* loadFolders after its readDir resolved with entries
StartFoldersResolve ==
  \E l \in dirLoadsOf(dirLoads, "folders") : \E entries \in startListings :
    settleOn([noStep EXCEPT !.event = "folders", !.e = entries],
              foldersListed(cur, l, entries))

\* loadVideos after its readDir resolved with entries
StartVideosResolve ==
  \E l \in dirLoadsOf(dirLoads, "videos") : \E entries \in startListings :
    settleOn([noStep EXCEPT !.event = "videos", !.e = entries],
              videosListed(cur, l, entries))

StartNext ==
  \/ StartFoldersResolve \/ FoldersReject
  \/ StartVideosResolve \/ VideosReject
  \/ SetViewMode

StartSpec == StartInit /\ [][StartNext]_vars

-----------------------------------------------------------------------------
(* App with both indexes listed: the user selects folders and videos,        *)
(* switches the mode and clicks Refresh; the timers of refreshContent fire   *)
(* at any later moment.                                                      *)

\* The Refresh button is enabled when the active mode has a selection
Refresh ==
  /\ controlsShown
  /\ ~isFalsy(IF viewMode = "images" THEN selectedFolder ELSE selectedVideo)
  /\ refresh.nextTimer < MaxRefreshes
  /\ \E s \in {refreshContent(cur)} :
       updateOn([noStep EXCEPT !.event = "refresh",
                               !.e = CHOOSE t \in s.timers : t.id = s.nextTimer],
                s)

\* The 10 ms of a timer of refreshContent elapsed
\* (on the unmounted component the state setter does nothing)
RefreshTimerFires ==
  \E t \in refresh.timers :
    IF mounted
    THEN updateOn([noStep EXCEPT !.event = "timer", !.e = t], timerFired(cur, t))
    ELSE /\ refresh' = [refresh EXCEPT !.timers = @ \ {t}]
         /\ UNCHANGED <<hookVars, trace, bump, mounted, currentDateFolder,
                        folders, foldersError, videos, videosError, viewMode,
                        selectedFolder, selectedVideo, currentImageIndex,
                        currentImageSrc, videoCacheFolder, isExtractingFrames,
                        videoFiles, videoFilesError, videoLoads, dirLoads,
                        extracts, nextExtract, reads, nextRead, blobs, revoked,
                        supersededFolder, lastStep, limit, playback>>

RefreshInit ==
  \E today \in Todays :
  \E r \in {thenVideosListed(thenFoldersListed(mount(today), TopListing), TopListing)} :
    /\ appStateIs(r)
    /\ limit = [loads |-> r.nextLoad + MaxRefreshLoads,
                extracts |-> MaxRefreshExtracts,
                reads |-> r.nextRead]

RefreshNext ==
  \/ SetViewMode \/ SelectFolder \/ SelectVideo
  \/ Refresh \/ RefreshTimerFires
  \/ FoldersResolve \/ VideosResolve

RefreshSpec == RefreshInit /\ [][RefreshNext]_vars

-----------------------------------------------------------------------------
(* The index hooks used through refreshFolders and refreshVideos: listings   *)
(* fail and succeed, and the caller loads the index again, also while        *)
(* earlier loads of the index are in flight.                                 *)

indexListings == {TopListing, NavTopListing, <<>>}

\* refreshFolders(): loadFolders called by the user of the hook
RefreshFolders ==
  /\ Cardinality(dirLoadsOf(dirLoads, "folders")) < MaxIndexLoads
  /\ updateOn([noStep EXCEPT !.event = "refreshFolders", !.e = foldersError],
              loadFoldersEffect(cur, cur))

\* refreshVideos()
RefreshVideos ==
  /\ Cardinality(dirLoadsOf(dirLoads, "videos")) < MaxIndexLoads
  /\ updateOn([noStep EXCEPT !.event = "refreshVideos", !.e = videosError],
              loadVideosEffect(cur, cur))

IndexFoldersResolve ==
  \E l \in dirLoadsOf(dirLoads, "folders") : \E entries \in indexListings :
    settleOn([noStep EXCEPT !.event = "folders", !.e = entries],
              foldersListed(cur, l, entries))

IndexVideosResolve ==
  \E l \in dirLoadsOf(dirLoads, "videos") : \E entries \in indexListings :
    settleOn([noStep EXCEPT !.event = "videos", !.e = entries],
              videosListed(cur, l, entries))

IndexFoldersReject ==
  \E l \in dirLoadsOf(dirLoads, "folders") : \E val \in Rejections :
    settleOn([noStep EXCEPT !.event = "foldersFailed", !.e = val],
              foldersFailed(cur, l, val))

IndexVideosReject ==
  \E l \in dirLoadsOf(dirLoads, "videos") : \E val \in Rejections :
    settleOn([noStep EXCEPT !.event = "videosFailed", !.e = val],
              videosFailed(cur, l, val))

IndexNext ==
  \/ RefreshFolders \/ RefreshVideos
  \/ IndexFoldersResolve \/ IndexFoldersReject
  \/ IndexVideosResolve \/ IndexVideosReject

IndexSpec == StartInit /\ [][IndexNext]_vars

-----------------------------------------------------------------------------
(* The bump-version script: it increments the version of package.json and    *)
(* writes the new version to package.json and to tauri.conf.json.            *)

\* String.prototype.split(".")
RECURSIVE splitFrom(_, _, _, _)
splitFrom(str, i, part, acc) ==
  IF i > Len(str) THEN Append(acc, part)
  ELSE IF CharAt(str, i) = "." THEN splitFrom(str, i + 1, "", Append(acc, part))
  ELSE splitFrom(str, i + 1, part \o CharAt(str, i), acc)

split(str) == splitFrom(str, 1, "", <<>>)

\* Number(str) of a non-empty string of decimal digits
Number(str) == parseIntFrom(str, 1, 0)

\* Array.prototype.join(".") of an array of numbers
RECURSIVE join(_)
join(parts) ==
  IF Len(parts) = 0 THEN ""
  ELSE IF Len(parts) = 1 THEN ToString(parts[1])
  ELSE ToString(parts[1]) \o "." \o join(Tail(parts))

\* Variant: the lower parts are kept
incrementVersionKeepsLower(version, type) ==
  LET strs == split(version)
      parts == [i \in 1..Len(strs) |-> Number(strs[i])]
  IN IF type = "major" THEN join([parts EXCEPT ![1] = @ + 1])
     ELSE IF type = "minor" THEN join([parts EXCEPT ![2] = @ + 1])
     ELSE join([parts EXCEPT ![3] = @ + 1])

incrementVersion(version, type) ==
  LET strs == split(version)
      parts == [i \in 1..Len(strs) |-> Number(strs[i])]
  IN IF type = "major" THEN join([parts EXCEPT ![1] = @ + 1, ![2] = 0, ![3] = 0])
     ELSE IF type = "minor" THEN join([parts EXCEPT ![2] = @ + 1, ![3] = 0])
     ELSE join([parts EXCEPT ![3] = @ + 1])

\* The versions package.json starts with, and the arguments of the script
\* (NULL: no argument)
BumpParts == {"0", "1", "9", "07", "10"}
BumpVersions == {a \o "." \o b \o "." \o c : a, b, c \in BumpParts}
BumpArgs == {NULL, "major", "minor", "patch", "build"}

BumpInit ==
  /\ folder = NULL
  /\ files = <<>>
  /\ filesError = NULL
  /\ loads = {}
  /\ nextLoad = 0
  /\ trace = noTrace
  /\ AppUnused
  /\ \E arg \in BumpArgs : \E v \in BumpVersions : \E t \in {"0.1.0", "1.9.10"} :
       bump = [noBump EXCEPT !.pc = "start", !.argv = arg, !.package = v, !.tauri = t]

bumpStep(b) ==
  /\ bump' = b
  /\ UNCHANGED <<hookVars, trace, componentVars>>

\* process.argv[2] ?? "patch", and the exit on an unknown type
BumpCheckArgs ==
  /\ bump.pc = "start"
  /\ \E type \in {IF bump.argv = NULL THEN "patch" ELSE bump.argv} :
       bumpStep([bump EXCEPT !.versionType = type,
                             !.pc = IF type \in {"major", "minor", "patch"}
                                    THEN "readPackage" ELSE "exit"])

\* package.json is read and parsed, the new version is computed
BumpReadPackage ==
  /\ bump.pc = "readPackage"
  /\ bumpStep([bump EXCEPT !.oldVersion = bump.package,
                           !.newVersion = incrementVersion(bump.package, bump.versionType),
                           !.pc = "writePackage"])

BumpWritePackage ==
  /\ bump.pc = "writePackage"
  /\ bumpStep([bump EXCEPT !.package = bump.newVersion, !.pc = "readTauri"])

\* tauri.conf.json is read and parsed
BumpReadTauri ==
  /\ bump.pc = "readTauri"
  /\ bumpStep([bump EXCEPT !.pc = "writeTauri"])

\* readFile of tauri.conf.json rejects: the script ends with package.json written
BumpReadTauriRejects ==
  /\ bump.pc = "readTauri"
  /\ bumpStep([bump EXCEPT !.pc = "failed"])

BumpWriteTauri ==
  /\ bump.pc = "writeTauri"
  /\ bumpStep([bump EXCEPT !.tauri = bump.newVersion, !.pc = "done"])

BumpNext ==
  \/ BumpCheckArgs \/ BumpReadPackage \/ BumpWritePackage
  \/ BumpReadTauri \/ BumpReadTauriRejects \/ BumpWriteTauri

BumpSpec == BumpInit /\ [][BumpNext]_vars

-----------------------------------------------------------------------------
(* App, the video-playback revision, from mount on *)

\* The first render and its effects
playbackMount(today) == playbackRender(initialApp(today), initialApp(today), TRUE)

PlaybackInit ==
  \E today \in Todays : \E r \in {playbackMount(today)} :
    /\ appStateIs(r)
    /\ limit = [loads |-> MaxLoads, extracts |-> 0, reads |-> MaxReads]

\* invoke("transcode_video") resolved: the blob URL of the transcoded video
videoTranscoded(c, t) ==
  LET blobUrl == "blob:video-" \o ToString(t.id)
  IN [c EXCEPT !.blobs = @ \cup {[url |-> blobUrl, path |-> t.video]},
               !.videoRunBlob = IF t.id = c.videoRuns THEN blobUrl ELSE @,
               !.currentVideoSrc = blobUrl,
               !.isTranscoding = FALSE,
               !.transcodes = @ \ {t}]

\* A key is pressed anywhere in the window
PlaybackKeydown ==
  \E e \in KeyEvents :
    update(playbackHandleKeydown(cur, e))

\* loadVideo after invoke("transcode_video") settled.  Once the component is
\* unmounted the continuation still creates its blob URL; the state setters
\* do nothing, and the cleanup of the run has run already
TranscodeResolves ==
  \E t \in playback.transcodes :
    IF mounted THEN update(videoTranscoded(cur, t))
    ELSE /\ blobs' = videoTranscoded(cur, t).blobs
         /\ playback' = [playback EXCEPT !.transcodes = @ \ {t}]
         /\ UNCHANGED <<hookVars, trace, bump, mounted, currentDateFolder,
                        folders, foldersError, videos, videosError, viewMode,
                        selectedFolder, selectedVideo, currentImageIndex,
                        currentImageSrc, videoCacheFolder, isExtractingFrames,
                        videoFiles, videoFilesError, videoLoads, dirLoads,
                        extracts, nextExtract, reads, nextRead, revoked,
                        supersededFolder, lastStep, limit, refresh>>

TranscodeRejects ==
  \E t \in playback.transcodes :
    IF mounted
    THEN update([cur EXCEPT !.currentVideoSrc = NULL,
                            !.isTranscoding = FALSE,
                            !.transcodes = @ \ {t}])
    ELSE /\ playback' = [playback EXCEPT !.transcodes = @ \ {t}]
         /\ UNCHANGED <<hookVars, trace, bump, mounted, currentDateFolder,
                        folders, foldersError, videos, videosError, viewMode,
                        selectedFolder, selectedVideo, currentImageIndex,
                        currentImageSrc, videoCacheFolder, isExtractingFrames,
                        videoFiles, videoFilesError, videoLoads, dirLoads,
                        extracts, nextExtract, reads, nextRead, blobs, revoked,
                        supersededFolder, lastStep, limit, refresh>>

\* <video onError>: the video shown failed to load
VideoError ==
  /\ playback.videoRuns > 0
  /\ controlsShown
  /\ viewMode = "videos"
  /\ playback.currentVideoSrc # NULL
  /\ update([cur EXCEPT !.currentVideoSrc = NULL])

PlaybackNext ==
  \/ FoldersResolve \/ FoldersReject
  \/ VideosResolve \/ VideosReject
  \/ SetViewMode \/ SelectFolder \/ SelectVideo
  \/ PlaybackKeydown
  \/ FilesReadDirResolves \/ FilesReadDirRejects \/ FilesDelayElapses
  \/ ReadFileResolves \/ ReadFileRejects
  \/ TranscodeResolves \/ TranscodeRejects
  \/ ImageError \/ VideoError
  \/ Unmount \/ ReadFileResolvesUnmounted \/ ReadFileRejectsUnmounted

PlaybackSpec == PlaybackInit /\ [][PlaybackNext]_vars

\* The number of loadFolders / loadVideos calls of an index in flight
pendingLoads(index) == Cardinality(dirLoadsOf(dirLoads, index))

\* No promise is pending
Quiescent ==
  /\ loads = {} /\ videoLoads = {} /\ dirLoads = {}
  /\ extracts = {} /\ reads = {}

-----------------------------------------------------------------------------
(* The retry loop of one listing (Spec) *)

Done == loads = {}

\* The most recent call has ended
ended == \A l \in loads : l.id # trace.id

\* No other call was in flight while the most recent call was
alone == ~trace.overlapped

\* The step is one of the most recent call: the settling of one of its
\* readDir calls or the end of one of its delays
acts ==
  /\ trace'.id = trace.id
  /\ trace'.hist # trace.hist \/ trace'.calls # trace.calls

Errors5 == <<"error", "error", "error", "error", "error">>
Empty5 == <<"empty", "empty", "empty", "empty", "empty">>

\* s is ascending in the order of sort()
IsAscending(s) == \A i \in 1..(Len(s) - 1) : ~StrLess(s[i + 1], s[i])

\* C3: a cache-path listing whose first two attempts fail and whose third
\* succeeds with a non-empty file list ends, in the step of the third
\* attempt, with files equal to that list and exactly 3 readDir calls; it
\* sets no error, so filesError is null when no other call was in flight
\* meanwhile.
C3_FailTwiceThenFiles ==
  [][(/\ acts
      /\ startsWith(trace'.folder, ".cache/")
      /\ trace'.hist = <<"error", "error", "files">>)
       => /\ ended'
          /\ trace'.outcome = "commit"
          /\ files' = fileListOf(trace'.entries)
          /\ files' # <<>>
          /\ filesError' = filesError
          /\ alone' => (filesError' = NULL /\ Done')
          /\ trace'.calls = 3]_vars

C3_Witness ==
  /\ alone
  /\ filesError = NULL
  /\ trace.folder = ".cache/k1"
  /\ trace.hist = <<"error", "error", "files">>
  /\ files = <<"frame_0001.jpg", "frame_0002.jpg">>

\* C4: a cache-path listing that succeeds with zero files on all 5 attempts
\* ends, in the step of the fifth attempt, with files = [] after exactly 5
\* readDir calls, as a success: it sets no error, so filesError is null
\* when no other call was in flight meanwhile.
C4_EmptyFiveTimes ==
  [][(/\ acts
      /\ startsWith(trace'.folder, ".cache/")
      /\ trace'.hist = Empty5)
       => /\ ended'
          /\ trace'.outcome = "commit"
          /\ files' = <<>>
          /\ filesError' = filesError
          /\ alone' => (filesError' = NULL /\ Done')
          /\ trace'.calls = 5]_vars

C4_Witness ==
  /\ trace.folder = ".cache/k1"
  /\ trace.hist = Empty5
  /\ alone
  /\ filesError = NULL
  /\ files = <<>>
  /\ Done

\* C5: whenever the 5th attempt of a cache-path listing succeeds with zero
\* files, the listing ends as a success (files = [], no error set, so
\* filesError null when no other call was in flight), whatever attempts 1
\* to 4 returned.
C5_EmptyLastIsSuccess ==
  [][(/\ acts
      /\ startsWith(trace'.folder, ".cache/")
      /\ Len(trace'.hist) = 5
      /\ trace'.hist[5] = "empty")
       => /\ trace'.outcome = "commit"
          /\ files' = <<>>
          /\ filesError' = filesError
          /\ alone' => filesError' = NULL]_vars

\* C6: when all 5 attempts fail, filesError becomes the error of the last
\* attempt, and only after the 5th attempt: a failing attempt that is
\* retried leaves filesError as it is, which is null while the listing is
\* retrying and no other call is in flight.
C6_LastErrorAfterAllAttempts ==
  [][/\ (alone' /\ ~ended') => filesError' = NULL
     /\ (acts /\ trace'.outcome = "pending") => filesError' = filesError
     /\ (acts /\ trace'.hist = Errors5)
          => /\ ended'
             /\ trace'.outcome = "throw"
             /\ filesError' = ensureError(trace'.rejection)
             /\ trace'.calls = 5
     /\ (acts /\ filesError' # NULL /\ filesError' # filesError)
          => trace'.calls = 5]_vars

C6_Witness ==
  /\ trace.hist = Errors5
  /\ trace.rejection = "forbidden path"
  /\ filesError = "Error: forbidden path"

\* C7: every listing call terminates: it issues at most 5 readDir calls and
\* ends in exactly one outcome, a committed file sequence or filesError set.
C7_Terminates ==
  /\ [](trace.calls <= 5)
  /\ [][(acts /\ ended')
          => \/ trace'.outcome = "commit" /\ filesError' = filesError
             \/ trace'.outcome = "throw" /\ filesError' # NULL]_vars
  /\ \A id \in 1..MaxLoads :
       (\E l \in loads : l.id = id) ~> ~(\E l \in loads : l.id = id)

C7_Witness ==
  /\ ended
  /\ trace.calls = 5
  /\ trace.outcome = "throw"
  /\ filesError # NULL

\* C8: a folder is a cache path iff its name starts with ".cache/"; a
\* non-cache folder accepts its first successful listing, so one that has
\* zero files ends with files = [] after 1 readDir call and no delay, while
\* a cache path does not accept it at the first attempt.
C8_NonCacheAcceptsFirst ==
  [][/\ (/\ acts
         /\ trace'.folder \in {"2025-01-15", ".cache"}
         /\ trace'.hist # <<>>
         /\ trace'.hist[1] = "empty")
          => /\ ended'
             /\ trace'.outcome = "commit"
             /\ files' = <<>>
             /\ filesError' = filesError
             /\ alone' => (filesError' = NULL /\ Done')
             /\ trace'.calls = 1
             /\ trace'.waited = 0
     /\ (acts /\ trace'.folder = ".cache/k1" /\ trace'.hist = <<"empty">>)
          => ~ended']_vars

C8_Witness ==
  /\ trace.folder = ".cache"
  /\ trace.hist = <<"empty">>
  /\ trace.entries = <<>>
  /\ files = <<>>
  /\ ended

\* C10: the file sequence committed for a directory listing is exactly the
\* names of the entries with isFile true, with no directory entry, sorted
\* lexicographically ascending.
C10_FilesFilteredSorted ==
  [][(acts /\ ended' /\ ~isFalsy(trace'.folder) /\ trace'.outcome = "commit")
       => LET entries == trace'.entries
              fileIdx == {i \in 1..Len(entries) : entries[i].isFile}
          IN /\ {files'[i] : i \in 1..Len(files')} = {entries[i].name : i \in fileIdx}
             /\ Len(files') = Cardinality(fileIdx)
             /\ \A i \in 1..Len(entries) :
                  entries[i].isDirectory => \A j \in 1..Len(files') : files'[j] # entries[i].name
             /\ IsAscending(files')]_vars

C10_Witness ==
  /\ ended
  /\ trace.entries = DayListing
  /\ trace.outcome = "commit"
  /\ files = <<"Shot_2.png", "shot_10.png", "shot_9.png">>

-----
(* Overlapping listings (OverlapSpec) *)

\* C9: useFiles(null) always yields files = [] and filesError null, also
\* when the argument changes from a folder name back to null.
C9_NullFolderIsEmpty ==
  folder = NULL => (files = <<>> /\ filesError = NULL)

-----------------------------------------------------------------------------
(* Supersession in App (AppSpec) *)

\* The file sequences a listing of folder f can commit
listingsOf(f) == {fileListOf(entries) : entries \in appReadDirResults(dirPath(f))}

\* The paths of the files a listing of folder f can name
filePathsOf(f) ==
  {"Timelapse/" \o f \o "/" \o name : name \in UNION {elementsOf(fl) : fl \in listingsOf(f)}}

\* C1: if the selected folder changes from A to B while A's listing is
\* unresolved then, once nothing is in flight, the file sequence held is B's
\* listing and the image shown was built from a file of B.
C1_FolderSupersession ==
  (/\ Quiescent
   /\ viewMode = "images"
   /\ supersededFolder # NULL
   /\ filesError = NULL)
    => /\ files \in listingsOf(selectedFolder)
       /\ currentImageSrc # NULL
            => \E b \in blobs : b.url = currentImageSrc /\ b.path \in filePathsOf(selectedFolder)

\* C2: if the selected video changes from V1 to V2 while V1's extraction
\* request is unresolved, V1's result is discarded: once the requests have
\* resolved, the cache folder held is the one returned for V2, or null.
C2_VideoSupersession ==
  (extracts = {} /\ viewMode = "videos" /\ ~isFalsy(selectedVideo))
    => videoCacheFolder \in {cacheFolderOf(selectedVideo), NULL}

-----------------------------------------------------------------------------
(* The current index (AppSpec, NavSpec, BrowseSpec) *)

\* C15: in every reachable state, currentImageIndex lies in [0, n - 1], where
\* n is the length of the active sequence (files in images mode, videoFiles
\* in videos mode), and is 0 when the active sequence is empty.
C15_IndexInRange ==
  LET n == IF viewMode = "images" THEN Len(files) ELSE Len(videoFiles) IN
  IF n = 0 THEN currentImageIndex = 0
  ELSE currentImageIndex >= 0 /\ currentImageIndex <= n - 1

\* C16: a left/right key on a non-empty active sequence of length n moves the
\* index by 1, by 10 with shift, by 100 with alt (alt wins over shift),
\* clamped to [0, n - 1]; on an empty active sequence, and for any other
\* key, the index stays.
C16_KeydownMoves ==
  lastStep.event = "keydown" =>
    LET e == lastStep.e
        i == lastStep.index
        n == lastStep.length
        step == IF e.altKey THEN 100 ELSE IF e.shiftKey THEN 10 ELSE 1
    IN currentImageIndex =
         IF n = 0 THEN i
         ELSE IF e.key = "ArrowLeft" THEN (IF i - step < 0 THEN 0 ELSE i - step)
         ELSE IF e.key = "ArrowRight" THEN (IF i + step > n - 1 THEN n - 1 ELSE i + step)
         ELSE i

C16_Witness ==
  /\ lastStep.event = "keydown"
  /\ lastStep.e = [key |-> "ArrowRight", shiftKey |-> TRUE, altKey |-> TRUE]
  /\ lastStep.index = 5
  /\ lastStep.length = NavLength
  /\ currentImageIndex = 105

\* C19: index reset keeps two policies: when the listing of the selected
\* image folder has loaded in images mode, the index is max(n - 1, 0), the
\* last file; when the frame listing of the extracted video has loaded with
\* n > 0 frames in videos mode, the index is 0, the first frame.
C19_IndexResetPolicies ==
  [][/\ (/\ viewMode' = "images"
         /\ filesError' = NULL
         /\ \E l \in loads : loads' = loads \ {l} /\ l.folder = selectedFolder')
          => currentImageIndex' = max(Len(files') - 1, 0)
     /\ (/\ viewMode' = "videos"
         /\ Len(videoFiles') > 0
         /\ \E l \in videoLoads :
              /\ videoLoads' = videoLoads \ {l}
              /\ l.folder = videoFolderArg([videoCacheFolder |-> videoCacheFolder']))
          => currentImageIndex' = 0]_vars

-----------------------------------------------------------------------------
(* The displayed resource (AppSpec, up to unmount and after it) *)

\* The object URLs created and not revoked
liveBlobs == {b.url : b \in blobs} \ revoked

\* C20: in every state, those after unmount included, at most one created
\* and not yet revoked blob URL is live, and the one held in currentImageSrc
\* is not revoked while the component displays it.
C20_OneLiveResource ==
  /\ Cardinality(liveBlobs) <= 1
  /\ (mounted /\ currentImageSrc # NULL) => currentImageSrc \notin revoked

-----------------------------------------------------------------------------
(* The Folder Index, the Video Index and auto-selection (StartSpec) *)

\* The k-th smallest of a set of positions
nth(positions, k) ==
  CHOOSE i \in positions : Cardinality({j \in positions : j < i}) = k - 1

\* The positions of the entries of a listing that are directories whose name
\* does not begin with "."
shownDirs(entries) ==
  {i \in 1..Len(entries) : entries[i].isDirectory /\ CharAt(entries[i].name, 1) # "."}

\* The positions of the entries of a listing that are files named *.mov
movFiles(entries) ==
  {i \in 1..Len(entries) :
     /\ entries[i].isFile
     /\ Len(entries[i].name) >= 4
     /\ SubSeq(entries[i].name, Len(entries[i].name) - 3, Len(entries[i].name)) = ".mov"}

\* C11: for every top-level listing, useFolders yields exactly the names of
\* the directory entries whose name does not begin with ".", in the order
\* the listing has them (no sort), and no file entry.
C11_FoldersFilteredInListingOrder ==
  lastStep.event = "folders" =>
    /\ Len(folders) = Cardinality(shownDirs(lastStep.e))
    /\ \A k \in 1..Len(folders) : folders[k] = lastStep.e[nth(shownDirs(lastStep.e), k)].name

C11_Witness ==
  /\ lastStep.event = "folders"
  /\ lastStep.e = <<Dir("2025-01-17"), Dir(".cache"), Dir("2025-01-15")>>
  /\ folders = <<"2025-01-17", "2025-01-15">>

\* C12: for every top-level listing, useVideos yields exactly the names of
\* the entries that are files and whose name ends with ".mov"; directories
\* named *.mov and files with another extension are left out.
C12_VideosFiltered ==
  lastStep.event = "videos" =>
    /\ elementsOf(videos) = {lastStep.e[i].name : i \in movFiles(lastStep.e)}
    /\ Len(videos) = Cardinality(movFiles(lastStep.e))

C12_Witness ==
  /\ lastStep.event = "videos"
  /\ lastStep.e = <<Dir("clips.mov"), File("a.mp4"), File("a.mov")>>
  /\ videos = <<"a.mov">>

\* C13: the video sequence of useVideos is sorted ascending by name, oldest
\* first; it is not reversed.
C13_VideosAscending ==
  \A i, j \in 1..Len(videos) : i < j => StrLess(videos[i], videos[j])

C13_Witness ==
  /\ lastStep.event = "videos"
  /\ lastStep.e = <<File("b.mov"), Dir("2025-01-15"), File("a.mov")>>
  /\ videos = <<"a.mov", "b.mov">>

\* C14: the video sequence of useVideos is sorted in reverse order, most
\* recent first.
C14_VideosMostRecentFirst ==
  \A i, j \in 1..Len(videos) : i < j => StrLess(videos[j], videos[i])

\* The lexicographically greatest name of a non-empty list
greatestOf(names) ==
  CHOOSE f \in elementsOf(names) : \A g \in elementsOf(names) : g = f \/ StrLess(g, f)

\* C17: in images mode, with a non-empty folder list and no folder selected
\* before, auto-selection selects the folder of the current date if the
\* list has it and the lexicographically greatest folder name otherwise,
\* whatever the order of the list.
C17_AutoSelectFolder ==
  (viewMode = "images" /\ Len(folders) > 0) =>
    selectedFolder = IF currentDateFolder \in elementsOf(folders)
                     THEN currentDateFolder
                     ELSE greatestOf(folders)

C17_Witness ==
  /\ currentDateFolder = "2025-01-16"
  /\ viewMode = "images"
  /\ folders = <<"2025-01-17", "2025-01-15">>
  /\ selectedFolder = "2025-01-17"

-----------------------------------------------------------------------------
(* Auto-selection of a video (PlaybackSpec) *)

\* C18: in videos mode, with a non-empty video list and no video selected,
\* auto-selection selects the most recent video: the entry of the list with
\* the greatest name.
C18_AutoSelectMostRecentVideo ==
  lastStep.autoVideo # NULL => lastStep.autoVideo = greatestOf(videos)

-----------------------------------------------------------------------------
(* The session up to unmount (BrowseSpec) *)

\* C21: no leak: once the component is unmounted and every fetch has settled,
\* every object URL that was created has been revoked, and no other was.
C21_NoLeak ==
  (~mounted /\ reads = {}) => {b.url : b \in blobs} = revoked

-----------------------------------------------------------------------------
(* Replacement of the displayed resource (BrowseSpec) *)

\* C22: while a resource R is displayed and a step changes the sequence or
\* the index so that a new fetch is issued, R stays displayed and unrevoked;
\* when a fetch resolves, its resource replaces R and R is revoked; when a
\* fetch fails, the display becomes null and R is revoked.
C22_ReplacedAfterFetch ==
  [][(currentImageSrc # NULL /\ mounted') =>
       /\ (reads \subseteq reads' /\ reads' # reads)
            => currentImageSrc' = currentImageSrc /\ currentImageSrc \notin revoked'
       /\ (\E rd \in reads : reads' = reads \ {rd} /\ blobs' # blobs)
            => /\ currentImageSrc' \in {b.url : b \in blobs'} \ {b.url : b \in blobs}
               /\ currentImageSrc' \notin revoked'
               /\ currentImageSrc \in revoked'
       /\ (\E rd \in reads : reads' = reads \ {rd} /\ blobs' = blobs)
            => currentImageSrc' = NULL /\ currentImageSrc \in revoked']_vars

-----------------------------------------------------------------------------
(* The Frame Cache Manager: extractFrames (AppSpec) *)

\* The extraction request for the selected video is the last one issued and
\* is unresolved
requesting ==
  /\ viewMode = "videos"
  /\ ~isFalsy(selectedVideo)
  /\ \E x \in extracts : x.id = nextExtract /\ x.video = selectedVideo

\* The displayed resource was read from a frame of the cache
frameDisplayed ==
  \E b \in blobs : b.url = currentImageSrc /\ startsWith(b.path, "Timelapse/.cache/")

\* C23: from the selection of a video in videos mode until its extraction
\* request resolves, the manager is Requesting with the cache key null, and
\* no frame of the video selected before is listed or displayed.
C23_RequestingClearsCacheKey ==
  requesting =>
    /\ isExtractingFrames
    /\ videoCacheFolder = NULL
    /\ videoFiles = <<>>
    /\ ~frameDisplayed

\* C24: in images mode, or with no video selected, the manager is Idle once
\* the extraction requests have resolved: the cache key is null and
\* isExtractingFrames is false, also when a request was unresolved at the
\* moment of the switch.
C24_IdleOutsideVideos ==
  (extracts = {} /\ (viewMode = "images" \/ isFalsy(selectedVideo)))
    => videoCacheFolder = NULL /\ ~isExtractingFrames

\* C25: when the extraction request for the selected video fails, the
\* manager ends in Failed: the cache key is null, isExtractingFrames is
\* false, no frame is displayed, and the error is retained: some state of the
\* component holds it.
C25_FailedRetainsError ==
  [][(/\ viewMode = "videos"
      /\ \E x \in extracts : /\ extracts' = extracts \ {x}
                             /\ x.id = nextExtract
                             /\ x.video = selectedVideo
      /\ videoCacheFolder' = NULL)
       => /\ ~isExtractingFrames'
          /\ ~frameDisplayed'
          /\ \E held \in {foldersError', videosError', filesError', videoFilesError'} :
               held # NULL]_vars

\* C26: extraction is never retried automatically: a step issues at most
\* one extract_video_frames request; it issues one when selectedVideo or
\* viewMode changes to a selected video in videos mode, the request being
\* for that video; the step in which a request settles issues none, and
\* otherwise only a step of the user (one that settles no promise) does.
C26_NoAutomaticRetry ==
  [][/\ nextExtract' <= nextExtract + 1
     /\ nextExtract' = nextExtract + 1
          => /\ viewMode' = "videos"
             /\ ~isFalsy(selectedVideo')
             /\ [id |-> nextExtract', video |-> selectedVideo'] \in extracts'
             /\ extracts \subseteq extracts'
     /\ (/\ viewMode' = "videos"
         /\ ~isFalsy(selectedVideo')
         /\ (selectedVideo' # selectedVideo \/ viewMode' # viewMode))
          => nextExtract' = nextExtract + 1
     /\ (/\ nextExtract' = nextExtract + 1
         /\ selectedVideo' = selectedVideo
         /\ viewMode' = viewMode)
          => /\ dirLoads' = dirLoads
             /\ reads \subseteq reads'
             /\ loads' = loads /\ videoLoads' = videoLoads]_vars

\* The one request for the selected video has failed and nothing is in
\* flight: no request replaces it
C26_Witness ==
  /\ viewMode = "videos"
  /\ selectedVideo = "2025-01-16.mov"
  /\ nextExtract = 1
  /\ extracts = {}
  /\ videoCacheFolder = NULL
  /\ ~isExtractingFrames

\* The entry auto-selection picks when nothing is selected
autoSelected ==
  IF viewMode = "images"
  THEN IF currentDateFolder \in elementsOf(folders)
       THEN currentDateFolder ELSE greatestOf(folders)
  ELSE videos[Len(videos)]

\* The step of a click on Refresh: a timer holding the selection is armed,
\* the selection passes through null, so that auto-selection runs, and the
\* entry it picks is listed (extracted)
refreshStep ==
  lastStep'.event = "refresh" =>
    /\ lastStep'.e \in refresh'.timers
    /\ IF viewMode = "images"
       THEN /\ lastStep'.e.kind = "folder"
            /\ lastStep'.e.value = selectedFolder
            /\ selectedFolder' = autoSelected
            /\ \E l \in loads' \ loads : l.folder = selectedFolder'
       ELSE /\ lastStep'.e.kind = "video"
            /\ lastStep'.e.value = selectedVideo
            /\ selectedVideo' = autoSelected
            /\ \E x \in extracts' \ extracts : x.video = selectedVideo'

\* A step other than a timer's that selects an entry issues its listing
\* (extraction)
selectionFetched ==
  /\ (selectedFolder' # selectedFolder /\ ~isFalsy(selectedFolder'))
       => \E l \in loads' \ loads : l.folder = selectedFolder'
  /\ (lastStep'.event # "timer" /\ selectedVideo' # selectedVideo /\ ~isFalsy(selectedVideo'))
       => \E x \in extracts' \ extracts : x.video = selectedVideo'

\* The step of a timer of refreshContent armed for a folder
folderTimerStep ==
  (lastStep'.event = "timer" /\ lastStep'.e.kind = "folder") =>
    /\ selectedFolder' = lastStep'.e.value
    /\ \/ selectedFolder = lastStep'.e.value
       \/ \E l \in loads' \ loads : l.folder = lastStep'.e.value

\* C27: Refresh with F (images mode) or V (videos mode) selected sets the
\* selection to null and then back: the step of the timer ends with the
\* selection equal to the value before the refresh, and a listing of F (an
\* extraction request for V) is issued in that step unless F (V) was
\* selected already, by a step that issued one.
C27_RefreshRestoresSelection ==
  [][/\ refreshStep
     /\ selectionFetched
     /\ folderTimerStep
     /\ (lastStep'.event = "timer" /\ lastStep'.e.kind = "video") =>
          /\ selectedVideo' = lastStep'.e.value
          /\ \/ selectedVideo = lastStep'.e.value
             \/ \E x \in extracts' \ extracts : x.video = lastStep'.e.value]_vars

\* C27, amended: as above, but the timer of a refresh of V issues the
\* request for V only if the mode is still videos when it fires; after a
\* switch to images mode it selects V and requests nothing.
C27_RestoresSelectionRequestsInMode ==
  [][/\ refreshStep
     /\ selectionFetched
     /\ folderTimerStep
     /\ (lastStep'.event = "timer" /\ lastStep'.e.kind = "video") =>
          /\ selectedVideo' = lastStep'.e.value
          /\ IF viewMode = "videos"
             THEN \/ selectedVideo = lastStep'.e.value
                  \/ \E x \in extracts' \ extracts : x.video = lastStep'.e.value
             ELSE extracts' = extracts]_vars

\* The timer of a refresh of 2025-01-15.mov fired after auto-selection had
\* picked 2025-01-16.mov: the selection is back and both were requested
C27_Witness ==
  /\ lastStep.event = "timer"
  /\ lastStep.e.value = "2025-01-15.mov"
  /\ viewMode = "videos"
  /\ selectedVideo = "2025-01-15.mov"
  /\ [id |-> nextExtract - 1, video |-> "2025-01-16.mov"] \in extracts
  /\ [id |-> nextExtract, video |-> "2025-01-15.mov"] \in extracts

\* C28: a click on Refresh re-invokes the index of the active mode only:
\* in images mode the folder index is loaded again and the video index is
\* not, in videos mode the converse; the mode and the selection of the
\* other mode are as before.
C28_RefreshActiveIndexOnly ==
  [][lastStep'.event = "refresh" =>
       /\ viewMode' = viewMode
       /\ IF viewMode = "images"
          THEN /\ pendingLoads("folders")' = pendingLoads("folders") + 1
               /\ dirLoadsOf(dirLoads', "videos") = dirLoadsOf(dirLoads, "videos")
               /\ selectedVideo' = selectedVideo
          ELSE /\ pendingLoads("videos")' = pendingLoads("videos") + 1
               /\ dirLoadsOf(dirLoads', "folders") = dirLoadsOf(dirLoads, "folders")
               /\ selectedFolder' = selectedFolder]_vars

\* Refresh was clicked in videos mode while the folder index was idle
C28_Witness ==
  /\ lastStep.event = "refresh"
  /\ viewMode = "videos"
  /\ pendingLoads("videos") = 1
  /\ pendingLoads("folders") = 0
  /\ selectedFolder = "2025-01-15"
  /\ selectedVideo = "2025-01-16.mov"

\* C29: in videos mode ArrowLeft selects the entry of the video list before
\* the selected video and ArrowRight the entry after it; ArrowLeft on the
\* first entry, ArrowRight on the last one and any other key leave the
\* selection as it is.
C29_KeysMoveVideoSelection ==
  [][(lastStep'.event = "keydown" /\ viewMode = "videos") =>
       \E i \in {indexOf(videos, selectedVideo)} :
         selectedVideo' =
           IF lastStep'.e.key = "ArrowLeft" /\ i > 0
           THEN at(videos, i - 1)
           ELSE IF lastStep'.e.key = "ArrowRight" /\ i < Len(videos) - 1
           THEN at(videos, i + 1)
           ELSE selectedVideo]_vars

\* C30: every load of an index clears the last error of the index when it
\* is issued, and a listing that succeeds sets the sequence to the new
\* listing and sets no error, also after a listing that failed: it ends
\* with the error null when no other load of the index was in flight since
\* the load was issued.
C30_RefreshClearsError ==
  [][/\ pendingLoads("folders")' > pendingLoads("folders") => foldersError' = NULL
     /\ pendingLoads("videos")' > pendingLoads("videos") => videosError' = NULL
     /\ lastStep'.event = "folders"
          => /\ folders' = folderListOf(lastStep'.e)
             /\ foldersError' = foldersError
             /\ \A l \in dirLoads \ dirLoads' : l.alone => foldersError' = NULL
     /\ lastStep'.event = "videos"
          => /\ videos' = videoListOf(lastStep'.e)
             /\ videosError' = videosError
             /\ \A l \in dirLoads \ dirLoads' : l.alone => videosError' = NULL]_vars

\* The folder listing failed, the index was refreshed, and the new listing,
\* the only one in flight, is about to come back
C30_Witness ==
  /\ lastStep.event = "refreshFolders"
  /\ lastStep.e = "Error: ENOENT"
  /\ foldersError = NULL
  /\ \E l \in dirLoads : l.index = "folders" /\ l.alone

\* C31: a folder or video listing is attempted once per load: the step in
\* which it fails sets the error of its index to the error of that attempt
\* (wrapped if it is not an Error), issues no further listing, leaves the
\* sequence of the index as it was, and leaves the sequences and the errors
\* of the other indexes as they were.
C31_ListingFailsOnce ==
  [][/\ lastStep'.event = "foldersFailed" =>
          /\ foldersError' = ensureError(lastStep'.e)
          /\ \E l \in dirLoadsOf(dirLoads, "folders") : dirLoads' = dirLoads \ {l}
          /\ folders' = folders
          /\ videos' = videos /\ videosError' = videosError
          /\ files' = files /\ filesError' = filesError
          /\ videoFiles' = videoFiles /\ videoFilesError' = videoFilesError
     /\ lastStep'.event = "videosFailed" =>
          /\ videosError' = ensureError(lastStep'.e)
          /\ \E l \in dirLoadsOf(dirLoads, "videos") : dirLoads' = dirLoads \ {l}
          /\ videos' = videos
          /\ folders' = folders /\ foldersError' = foldersError
          /\ files' = files /\ filesError' = filesError
          /\ videoFiles' = videoFiles /\ videoFilesError' = videoFilesError]_vars

\* The folder listing of a refresh failed with a value that is not an Error
\* while the video index holds a listing: the folders are those of the
\* listing before
C31_Witness ==
  /\ lastStep.event = "foldersFailed"
  /\ lastStep.e = "forbidden path"
  /\ foldersError = "Error: forbidden path"
  /\ folders = <<"2025-01-14", "2025-01-15", "clips.mov">>
  /\ videos = <<"2025-01-15.mov", "2025-01-16.mov">>
  /\ videosError = NULL
  /\ dirLoads = {}

\* C32: in the video-playback revision no blob URL of a transcoded video
\* stays unrevoked once it is superseded: a video blob URL that is not
\* revoked is the one created by the current run of the loadVideo effect,
\* for the selected video in videos mode.
C32_VideoBlobsRevoked ==
  \A b \in blobs :
    (startsWith(b.url, "blob:video-") /\ b.url \notin revoked)
      => /\ b.url = playback.videoRunBlob
         /\ viewMode = "videos"
         /\ b.path = selectedVideo

\* The most recent call is at one place: in its attempt k, of which k earlier
\* attempts settled and k delays elapsed, or in the delay after attempt k,
\* which is not the last attempt; no two calls in flight are the same call
attemptsInSequence ==
  /\ \A l \in loads :
       l.id = trace.id =>
         /\ trace.calls = l.attempt + 1
         /\ trace.waited = 500 * l.attempt
         /\ l.pc = "readDir" => Len(trace.hist) = l.attempt
         /\ l.pc = "delay" => Len(trace.hist) = l.attempt + 1 /\ l.attempt < 4
  /\ \A l \in loads : \A m \in loads : l.id = m.id => l = m
  /\ (ended /\ Len(trace.hist) > 0) => trace.waited = 500 * (Len(trace.hist) - 1)
  /\ Len(trace.hist) = 5 => trace.waited = 2000

\* C33: the attempts of one listing call are strictly sequential: attempt
\* k+1 starts only from the delay that followed the settled attempt k, a
\* delay follows every attempt that was not accepted except the last one,
\* and a call that used all 5 attempts waited 4 delays of 500 ms.
C33_AttemptsSequential ==
  [][/\ attemptsInSequence'
     /\ \A l \in loads : \A m \in loads' :
          (m.id = l.id /\ m # l) =>
            \/ l.pc = "readDir" /\ m.pc = "delay" /\ m.attempt = l.attempt
            \/ l.pc = "delay" /\ m.pc = "readDir" /\ m.attempt = l.attempt + 1]_vars

\* A call took all 5 attempts, failing and empty in turn
C33_Witness ==
  /\ trace.hist = <<"empty", "error", "empty", "error", "empty">>
  /\ trace.calls = 5
  /\ trace.waited = 2000
  /\ ended

\* C34: in videos mode the frame sequence held is empty or a listing of the
\* cache folder of the current CacheKey, and every frame read in flight that
\* was issued under the current CacheKey is for a file of that folder.
C34_FramesOfCurrentKey ==
  viewMode = "videos" =>
    /\ \/ videoFiles = <<>>
       \/ /\ ~isFalsy(videoCacheFolder)
          /\ videoFiles \in listingsOf(".cache/" \o videoCacheFolder)
    /\ \A rd \in reads :
         (~isFalsy(videoCacheFolder)
            /\ startsWith(rd.path, "Timelapse/.cache/" \o videoCacheFolder \o "/"))
           => rd.path \in filePathsOf(".cache/" \o videoCacheFolder)

\* C35: a listing that ends in failure leaves the files as they were: a
\* call for another folder keeps the files of the folder before while it
\* is in flight, and the step in which it fails sets filesError and does
\* not change files.
C35_FailureKeepsFiles ==
  [][/\ (folder' # folder /\ ~isFalsy(folder')) => files' = files
     /\ (acts /\ trace'.outcome = "throw")
          => /\ files' = files
             /\ filesError' # NULL]_vars

\* The listing of 2025-01-15 was held when the argument changed to
\* .cache/k1, whose listing failed at all attempts
C35_Witness ==
  /\ folder = ".cache/k1"
  /\ trace.folder = ".cache/k1"
  /\ trace.outcome = "throw"
  /\ Len(trace.hist) = 5
  /\ filesError = "Error: forbidden path"
  /\ files = fileListOf(DayListing)

\* C36: isExtractingFrames is true exactly while the extraction request
\* issued last, for the selected video in videos mode, is unresolved.
C36_ExtractingWhileRequesting == isExtractingFrames <=> requesting

\* C37: a null selection does not last while auto-selection applies: after
\* every step, in images mode with a non-empty folder list a folder is
\* selected, and in videos mode with a non-empty video list a video is
\* selected; the renders that follow a step that set the selection to null
\* (the empty option, a refresh) select an entry again.
C37_NullSelectionNotStable ==
  /\ (viewMode = "images" /\ Len(folders) > 0) => ~isFalsy(selectedFolder)
  /\ (viewMode = "videos" /\ Len(videos) > 0) => ~isFalsy(selectedVideo)

\* The user chose the empty option of the folder select after a refresh, and
\* auto-selection selected the folder of the day
C37_Witness ==
  /\ lastStep.event = "none"
  /\ viewMode = "images"
  /\ lastStep.autoFolder = "2025-01-15"
  /\ selectedFolder = "2025-01-15"
  /\ refresh.nextTimer = 1

\* C38: a switch of the view mode keeps the selections: the selection of
\* the mode that is left is unchanged, and the selection of the mode that
\* is entered is unchanged if there is one; a step that stays in videos
\* mode does not change selectedFolder and a step that stays in images mode
\* does not change selectedVideo, so auto-selection for a mode does not run
\* while the other mode is active.
C38_ModeSwitchKeepsSelections ==
  [][/\ (viewMode = "images" /\ viewMode' = "videos")
          => /\ selectedFolder' = selectedFolder
             /\ ~isFalsy(selectedVideo) => selectedVideo' = selectedVideo
     /\ (viewMode = "videos" /\ viewMode' = "images")
          => /\ selectedVideo' = selectedVideo
             /\ ~isFalsy(selectedFolder) => selectedFolder' = selectedFolder
     /\ (viewMode = "videos" /\ viewMode' = "videos") => selectedFolder' = selectedFolder
     /\ (viewMode = "images" /\ viewMode' = "images") => selectedVideo' = selectedVideo]_vars

\* The folders were listed in videos mode: none is selected
C38_Witness ==
  /\ lastStep.event = "folders"
  /\ viewMode = "videos"
  /\ Len(folders) > 0
  /\ selectedFolder = NULL
  /\ ~isFalsy(selectedVideo)

\* The number a part of a version stands for: the value of its digits
digitsValue(str) ==
  IF str = "0" THEN 0 ELSE IF str = "1" THEN 1 ELSE IF str = "9" THEN 9
  ELSE IF str = "07" THEN 7 ELSE 10

\* C39: when the script has ended, the version of package.json and of
\* tauri.conf.json is the same, and for the version major.minor.patch the
\* script started with it is (major+1).0.0 for type major,
\* major.(minor+1).0 for type minor and major.minor.(patch+1) for type
\* patch (the type when there is no argument).
C39_VersionBumped ==
  bump.pc = "done" =>
    \E a, b, c \in BumpParts :
      /\ bump.oldVersion = a \o "." \o b \o "." \o c
      /\ bump.package = bump.tauri
      /\ bump.package =
           IF bump.argv = "major"
           THEN ToString(digitsValue(a) + 1) \o ".0.0"
           ELSE IF bump.argv = "minor"
           THEN ToString(digitsValue(a)) \o "." \o ToString(digitsValue(b) + 1) \o ".0"
           ELSE ToString(digitsValue(a)) \o "." \o ToString(digitsValue(b)) \o "."
                  \o ToString(digitsValue(c) + 1)

\* 1.9.10 was bumped with type minor
C39_Witness ==
  /\ bump.pc = "done"
  /\ bump.argv = "minor"
  /\ bump.oldVersion = "1.9.10"
  /\ bump.package = "1.10.0"
  /\ bump.tauri = "1.10.0"

=============================================================================
